---------------------------- MODULE Spec2Model ----------------------------
(***************************************************************************)
(* Vision-Match: the image fingerprint pipeline (utils/imageProcessor.js), *)
(* the similarity metrics and the ranking engine, as state machines.       *)
(*                                                                         *)
(* JavaScript Numbers are IEEE-754 binary64 values.  The similarity code   *)
(* divides, takes square roots and compares results with ===, so the model *)
(* computes with binary64 values: a 53-bit significand held as a natural   *)
(* number in limbs of 15 bits, an unbounded exponent (no magnitude of the  *)
(* model comes near 2^1023 or 2^-1022), round-to-nearest-even, NaN and     *)
(* the infinities.  The sign of zero is not kept (no code path modelled    *)
(* here divides by a zero whose sign matters).                             *)
(***************************************************************************)
EXTENDS Integers, Sequences, FiniteSets, TLC

(***************************************************************************)
(* Natural numbers of any size: little-endian sequences of limbs below     *)
(* Base, without leading zero limbs; <<>> is 0.                            *)
(***************************************************************************)
Base == 2^15
LimbBits == 15

Max2(x, y) == IF x >= y THEN x ELSE y
Min2(x, y) == IF x <= y THEN x ELSE y

RECURSIVE BNorm(_)
BNorm(a) ==
    IF Len(a) > 0 /\ a[Len(a)] = 0 THEN BNorm(SubSeq(a, 1, Len(a) - 1)) ELSE a

Limb(a, i) == IF i <= Len(a) THEN a[i] ELSE 0

RECURSIVE BCmpAt(_, _, _)
BCmpAt(a, b, i) ==
    IF i = 0 THEN 0
    ELSE IF a[i] # b[i] THEN (IF a[i] < b[i] THEN -1 ELSE 1)
    ELSE BCmpAt(a, b, i - 1)

\* -1, 0 or 1 as a < b, a = b, a > b
BCmp(a, b) ==
    IF Len(a) # Len(b) THEN (IF Len(a) < Len(b) THEN -1 ELSE 1)
    ELSE BCmpAt(a, b, Len(a))

\* acc holds the limbs of the sum already computed
RECURSIVE BAddAt(_, _, _, _)
BAddAt(a, b, carry, acc) ==
    IF Len(acc) >= Max2(Len(a), Len(b))
    THEN (IF carry > 0 THEN Append(acc, carry) ELSE acc)
    ELSE LET s == Limb(a, Len(acc) + 1) + Limb(b, Len(acc) + 1) + carry
         IN  BAddAt(a, b, s \div Base, Append(acc, s % Base))

BAdd(a, b) == BAddAt(a, b, 0, <<>>)

RECURSIVE BSubAt(_, _, _, _)
BSubAt(a, b, borrow, acc) ==
    IF Len(acc) >= Len(a) THEN acc
    ELSE LET s == a[Len(acc) + 1] - Limb(b, Len(acc) + 1) - borrow
         IN  IF s < 0 THEN BSubAt(a, b, 1, Append(acc, s + Base))
                      ELSE BSubAt(a, b, 0, Append(acc, s))

\* a - b, for a >= b
BSub(a, b) == BNorm(BSubAt(a, b, 0, <<>>))

RECURSIVE BMulSmallAt(_, _, _, _)
BMulSmallAt(a, c, carry, acc) ==
    IF Len(acc) >= Len(a)
    THEN (IF carry > 0 THEN Append(acc, carry) ELSE acc)
    ELSE LET p == a[Len(acc) + 1] * c + carry
         IN  BMulSmallAt(a, c, p \div Base, Append(acc, p % Base))

\* a * c, for 0 <= c < Base
BMulSmall(a, c) == IF c = 0 THEN <<>> ELSE BMulSmallAt(a, c, 0, <<>>)

BShiftLimbs(a, k) == IF a = <<>> THEN a ELSE [i \in 1..k |-> 0] \o a

\* long multiplication by the rows a * b[j]: done holds the limbs of the
\* product that are final, rest the running sum above them
RECURSIVE BMulAt(_, _, _, _)
BMulAt(a, b, done, rest) ==
    IF Len(done) >= Len(b) THEN BNorm(done \o rest)
    ELSE LET t == BAdd(rest, BMulSmall(a, b[Len(done) + 1]))
         IN  BMulAt(a, b, Append(done, Limb(t, 1)),
                    IF t = <<>> THEN t ELSE Tail(t))

BMul(a, b) == BMulAt(a, b, <<>>, <<>>)

\* a * 2^k
BShl(a, k) == BShiftLimbs(BMulSmall(a, 2^(k % LimbBits)), k \div LimbBits)

\* acc holds the quotient's limbs already computed, from the top
RECURSIVE BDivSmallAt(_, _, _, _)
BDivSmallAt(a, c, r, acc) ==
    IF Len(acc) >= Len(a) THEN <<BNorm(acc), r>>
    ELSE LET cur == r * Base + a[Len(a) - Len(acc)]
         IN  BDivSmallAt(a, c, cur % c, <<cur \div c>> \o acc)

\* <<a div c, a mod c>>, for 0 < c <= Base
BDivSmall(a, c) == BDivSmallAt(a, c, 0, <<>>)

BShrQ(qr, lost) == <<qr[1], qr[2] # 0 \/ lost>>

BShrW(a, k, w) ==
    BShrQ(BDivSmall(SubSeq(a, w + 1, Len(a)), 2^(k % LimbBits)),
          \E i \in 1..w : a[i] # 0)

\* <<a div 2^k, whether a mod 2^k is nonzero>>
BShr(a, k) == BShrW(a, k, Min2(k \div LimbBits, Len(a)))

BitLenSmall(x) == CHOOSE k \in 1..LimbBits : 2^(k - 1) <= x /\ x < 2^k

BBitLen(a) ==
    IF a = <<>> THEN 0 ELSE LimbBits * (Len(a) - 1) + BitLenSmall(a[Len(a)])

BIsOdd(a) == a # <<>> /\ a[1] % 2 = 1

RECURSIVE BFromNat(_)
BFromNat(n) == IF n = 0 THEN <<>> ELSE <<n % Base>> \o BFromNat(n \div Base)

\* the quotient digit of r by d (d's top limb >= Base/2, r < d * Base)
RECURSIVE BFixDigit(_, _, _)
BFixDigit(r, d, q) ==
    IF BCmp(BMulSmall(d, q), r) > 0 THEN BFixDigit(r, d, q - 1) ELSE q

BTopTwo(r, L) == IF Len(r) > L THEN r[L + 1] * Base + r[L] ELSE r[L]

BDigit(r, d) ==
    IF BCmp(r, d) < 0 THEN 0
    ELSE BFixDigit(r, d, Min2(Base - 1, BTopTwo(r, Len(d)) \div d[Len(d)]))

BDigitRemOf(cur, d, q) == <<q, BSub(cur, BMulSmall(d, q))>>

\* <<the quotient digit of cur by d, the remainder>>
BDigitRem(cur, d) == BDigitRemOf(cur, d, BDigit(cur, d))

\* long division from the top limb of n down; p = <<the last digit, the
\* remainder>>, acc the digits before it (Len(acc) limbs of n are consumed)
RECURSIVE BDivAt(_, _, _, _)
BDivAt(n, d, p, acc) ==
    IF Len(acc) = Len(n) THEN <<BNorm(<<p[1]>> \o acc), p[2] # <<>> >>
    ELSE BDivAt(n, d, BDigitRem(BNorm(<<n[Len(n) - Len(acc)]>> \o p[2]), d),
                <<p[1]>> \o acc)

\* the top k limbs of nn are below dd: their digits are 0
BDivStart(nn, dd, k) ==
    BDivAt(nn, dd, <<0, BNorm(SubSeq(nn, Len(nn) - k + 1, Len(nn)))>>,
           SubSeq([i \in 1..k |-> 0], 1, k))

BDivFrom(nn, dd) == BDivStart(nn, dd, Min2(Len(dd) - 1, Len(nn)))

BDivShifted(n, d, sh) == BDivFrom(BShl(n, sh), BShl(d, sh))

\* <<n div d, whether n mod d is nonzero>>, for d # 0
BDiv(n, d) == BDivShifted(n, d, LimbBits - BitLenSmall(d[Len(d)]))

\* (x + n div x) div 2
NewtonStep(n, x) ==
    CHOOSE y \in {BShr(BAdd(x, q[1]), 1)[1] : q \in {BDiv(n, x)}} : TRUE

\* Newton's iteration from above: y is the step after x
RECURSIVE BSqrtIter(_, _, _)
BSqrtIter(n, x, y) ==
    IF BCmp(y, x) >= 0 THEN x ELSE BSqrtIter(n, y, NewtonStep(n, y))

BSqrtFrom(n, x) == BSqrtIter(n, x, NewtonStep(n, x))

\* floor of the square root of n
BSqrt(n) ==
    IF n = <<>> THEN <<>> ELSE BSqrtFrom(n, BShl(<<1>>, (BBitLen(n) + 1) \div 2))

(***************************************************************************)
(* IEEE-754 binary64 values: [k, s, e, m] is NaN (k = "nan"), an infinity  *)
(* (k = "inf", sign s) or the number (-1)^s * m * 2^e, with m = 0 or       *)
(* 2^52 <= m < 2^53.  Every value has one representation, so = on these    *)
(* records is === on the Numbers (but for NaN, which FEq handles).         *)
(***************************************************************************)
Prec == 53

FZero == [k |-> "num", s |-> 0, e |-> 0, m |-> <<>>]
NaN == [k |-> "nan", s |-> 0, e |-> 0, m |-> <<>>]
Inf(sg) == [k |-> "inf", s |-> sg, e |-> 0, m |-> <<>>]

IsNaN(x) == x.k = "nan"
IsInf(x) == x.k = "inf"
IsZero(x) == x.k = "num" /\ x.m = <<>>
IsFinite(x) == x.k = "num"

\* the binary64 nearest (ties to even) to (-1)^sg * (n + f) * 2^ex, where
\* 0 < f < 1 if sticky and f = 0 otherwise; sticky only with n of 55 bits or more
RoundCarry(sg, ex, q1) ==
    IF BBitLen(q1) > Prec
    THEN [k |-> "num", s |-> sg, e |-> ex + 1, m |-> BShr(q1, 1)[1]]
    ELSE [k |-> "num", s |-> sg, e |-> ex, m |-> q1]

RoundUp(sg, ex, q, up) == RoundCarry(sg, ex, IF up THEN BAdd(q, <<1>>) ELSE q)

\* t = <<n div 2^(d-1), whether bits were lost below it>>: its last bit is the guard
RoundGuard(sg, ex, sticky, t, q) ==
    RoundUp(sg, ex, q, BIsOdd(t[1]) /\ (t[2] \/ sticky \/ BIsOdd(q)))

RoundTo(sg, ex, sticky, t) == RoundGuard(sg, ex, sticky, t, BShr(t[1], 1)[1])

RoundLen(sg, n, ex, sticky, L) ==
    IF L <= Prec
    THEN [k |-> "num", s |-> sg, e |-> ex - (Prec - L), m |-> BShl(n, Prec - L)]
    ELSE RoundTo(sg, ex + (L - Prec), sticky, BShr(n, L - Prec - 1))

Round(sg, n, ex, sticky) ==
    IF n = <<>> THEN FZero ELSE RoundLen(sg, n, ex, sticky, BBitLen(n))

\* Round of a tuple <<sg, n, ex, sticky>>
RoundOf(p) == Round(p[1], p[2], p[3], p[4])

FromInt(n) == Round(IF n < 0 THEN 1 ELSE 0, BFromNat(IF n < 0 THEN -n ELSE n), 0, FALSE)

Xor(a, b) == (a + b) % 2

FNeg(x) == IF x.k = "nan" \/ IsZero(x) THEN x ELSE [x EXCEPT !.s = 1 - x.s]

FAbs(x) == IF x.k = "nan" THEN x ELSE [x EXCEPT !.s = 0]

FMul(x, y) ==
    IF IsNaN(x) \/ IsNaN(y) THEN NaN
    ELSE IF IsInf(x) \/ IsInf(y)
    THEN (IF IsZero(x) \/ IsZero(y) THEN NaN ELSE Inf(Xor(x.s, y.s)))
    ELSE IF IsZero(x) \/ IsZero(y) THEN FZero
    ELSE Round(Xor(x.s, y.s), BMul(x.m, y.m), x.e + y.e, FALSE)

FDivQuot(sg, ex, q) == Round(sg, q[1], ex, q[2])

FDiv(x, y) ==
    IF IsNaN(x) \/ IsNaN(y) THEN NaN
    ELSE IF IsInf(x) THEN (IF IsInf(y) THEN NaN ELSE Inf(Xor(x.s, y.s)))
    ELSE IF IsInf(y) THEN FZero
    ELSE IF IsZero(y) THEN (IF IsZero(x) THEN NaN ELSE Inf(x.s))
    ELSE IF IsZero(x) THEN FZero
    ELSE FDivQuot(Xor(x.s, y.s), x.e - 60 - y.e, BDiv(BShl(x.m, 60), y.m))

FSqrtOf(n, ex) ==
    CHOOSE y \in {Round(0, r, ex, BMul(r, r) # n) : r \in {BSqrt(n)}} : TRUE

\* sh makes the exponent even and the root at least 55 bits long
FSqrtShifted(x, sh) == FSqrtOf(BShl(x.m, sh), (x.e - sh) \div 2)

FSqrt(x) ==
    IF IsNaN(x) THEN NaN
    ELSE IF IsZero(x) THEN FZero
    ELSE IF x.s = 1 THEN NaN
    ELSE IF IsInf(x) THEN x
    ELSE FSqrtShifted(x, IF (x.e - 60) % 2 = 0 THEN 60 ELSE 61)

\* the sum of two nonzero finite values
\* hi.e >= lo.e, a = hi.m * 2^(hi.e - lo.e), c = BCmp(a, lo.m): the exact sum
\* as <<sign, magnitude, exponent, sticky>>
FAddNear(hi, lo, a, c) ==
    IF hi.s = lo.s THEN <<hi.s, BAdd(a, lo.m), lo.e, FALSE>>
    ELSE IF c = 0 THEN <<0, <<>>, 0, FALSE>>
    ELSE IF c > 0 THEN <<hi.s, BSub(a, lo.m), lo.e, FALSE>>
    ELSE <<lo.s, BSub(lo.m, a), lo.e, FALSE>>

FAddAligned(hi, lo, a) == FAddNear(hi, lo, a, BCmp(a, lo.m))

\* lo is below a quarter of hi's last place: it only decides the rounding
FAddFar(hi, lo, h4) ==
    IF hi.s = lo.s THEN <<hi.s, h4, hi.e - 2, TRUE>>
    ELSE <<hi.s, BSub(h4, <<1>>), hi.e - 2, TRUE>>

FAddOrdered(hi, lo) ==
    IF hi.e - lo.e > 60 THEN FAddFar(hi, lo, BShl(hi.m, 2))
    ELSE FAddAligned(hi, lo, BShl(hi.m, hi.e - lo.e))

FAddNum(x, y) ==
    RoundOf(IF x.e >= y.e THEN FAddOrdered(x, y) ELSE FAddOrdered(y, x))

FAdd(x, y) ==
    IF IsNaN(x) \/ IsNaN(y) THEN NaN
    ELSE IF IsInf(x) THEN (IF IsInf(y) /\ x.s # y.s THEN NaN ELSE x)
    ELSE IF IsInf(y) THEN y
    ELSE IF IsZero(x) THEN y
    ELSE IF IsZero(y) THEN x
    ELSE FAddNum(x, y)

FSub(x, y) == FAdd(x, FNeg(y))

\* -1, 0 or 1 as |x| < |y|, |x| = |y|, |x| > |y|, for finite x and y
MagCmp(x, y) ==
    IF IsZero(x) THEN (IF IsZero(y) THEN 0 ELSE -1)
    ELSE IF IsZero(y) THEN 1
    ELSE IF x.e # y.e THEN (IF x.e < y.e THEN -1 ELSE 1)
    ELSE BCmp(x.m, y.m)

\* -1, 0 or 1 as x < y, x = y, x > y, for x and y other than NaN
AbsCmp(x, y) ==
    IF IsInf(x) THEN (IF IsInf(y) THEN 0 ELSE 1)
    ELSE IF IsInf(y) THEN -1
    ELSE MagCmp(x, y)

FCmp(x, y) ==
    IF x.s # y.s /\ ~(IsZero(x) /\ IsZero(y)) THEN (IF x.s = 1 THEN -1 ELSE 1)
    ELSE IF x.s = 1 THEN -AbsCmp(x, y) ELSE AbsCmp(x, y)

FLt(x, y) == ~IsNaN(x) /\ ~IsNaN(y) /\ FCmp(x, y) < 0
FGt(x, y) == FLt(y, x)
FLe(x, y) == ~IsNaN(x) /\ ~IsNaN(y) /\ FCmp(x, y) <= 0
FGe(x, y) == FLe(y, x)
FEq(x, y) == ~IsNaN(x) /\ ~IsNaN(y) /\ FCmp(x, y) = 0

\* Math.max and Math.min of two Numbers
FMax(x, y) == IF IsNaN(x) \/ IsNaN(y) THEN NaN ELSE IF FCmp(x, y) >= 0 THEN x ELSE y
FMin(x, y) == IF IsNaN(x) \/ IsNaN(y) THEN NaN ELSE IF FCmp(x, y) <= 0 THEN x ELSE y

\* the Number a decimal literal n/d denotes
Dec(n, d) == FDiv(FromInt(n), FromInt(d))

(***************************************************************************)
(* Number literals of the source.                                          *)
(***************************************************************************)
One == FromInt(1)
Half == Dec(5, 10)
CosineWeight == Dec(5, 10)
EuclideanWeight == Dec(3, 10)
CorrelationWeight == Dec(2, 10)

(***************************************************************************)
(* A JavaScript value that is null/undefined or an array of Numbers.       *)
(***************************************************************************)
Absent == [present |-> FALSE, v |-> <<>>]
Arr(v) == [present |-> TRUE, v |-> v]

(***************************************************************************)
(* The similarity metrics.                                                 *)
(***************************************************************************)
\* the loop of calculateCosineSimilarity: <<dotProduct, norm1, norm2>>
\* the iterations lo..hi, in order: the first half, then the second
RECURSIVE CosineRange(_, _, _, _, _)
CosineRange(f1, f2, lo, hi, acc) ==
    IF lo > hi THEN acc
    ELSE IF lo = hi
    THEN << FAdd(acc[1], FMul(f1[lo], f2[lo])),
            FAdd(acc[2], FMul(f1[lo], f1[lo])),
            FAdd(acc[3], FMul(f2[lo], f2[lo])) >>
    ELSE CHOOSE t \in { CosineRange(f1, f2, ((lo + hi) \div 2) + 1, hi, half) :
                            half \in {CosineRange(f1, f2, lo, (lo + hi) \div 2, acc)} } : TRUE

CosineLoop(f1, f2, i, acc) == CosineRange(f1, f2, i, Len(f1), acc)

\* t = <<dotProduct, norm1, norm2>>
CosineOf(t) ==
    IF IsZero(t[2]) \/ IsZero(t[3]) THEN FZero
    ELSE CHOOSE y \in {FDiv(t[1], FMul(root1, root2)) :
                           root1 \in {FSqrt(t[2])}, root2 \in {FSqrt(t[3])}} : TRUE

Triple0 == <<FZero, FZero, FZero>>

CosineNorm1Only(f1, f2) ==
    CHOOSE y \in { CosineOf(<<t[1], t[2], t[2]>>) :
                       t \in {CosineLoop(f1, f2, 1, Triple0)} } : TRUE

calculateCosineSimilarity(f1, f2) == CosineOf(CosineLoop(f1, f2, 1, Triple0))

\* Math.pow(x, 2)
Square(x) == FMul(x, x)

RECURSIVE EuclideanRange(_, _, _, _, _)
EuclideanRange(f1, f2, lo, hi, squaredSum) ==
    IF lo > hi THEN squaredSum
    ELSE IF lo = hi THEN FAdd(squaredSum, Square(FSub(f1[lo], f2[lo])))
    ELSE CHOOSE t \in { EuclideanRange(f1, f2, ((lo + hi) \div 2) + 1, hi, half) :
                            half \in {EuclideanRange(f1, f2, lo, (lo + hi) \div 2,
                                                     squaredSum)} } : TRUE

EuclideanLoop(f1, f2, i, squaredSum) == EuclideanRange(f1, f2, i, Len(f1), squaredSum)

Two == FromInt(2)

EuclideanTwoPlus(f1, f2) ==
    FDiv(One, FAdd(Two, FSqrt(EuclideanLoop(f1, f2, 1, FZero))))

calculateEuclideanSimilarity(f1, f2) ==
    FDiv(One, FAdd(One, FSqrt(EuclideanLoop(f1, f2, 1, FZero))))

\* features.reduce((sum, val) => sum + val, 0)
RECURSIVE SumRange(_, _, _, _)
SumRange(f, lo, hi, sum) ==
    IF lo > hi THEN sum
    ELSE IF lo = hi THEN FAdd(sum, f[lo])
    ELSE CHOOSE t \in { SumRange(f, ((lo + hi) \div 2) + 1, hi, half) :
                            half \in {SumRange(f, lo, (lo + hi) \div 2, sum)} } : TRUE

SumFrom(f, i, sum) == SumRange(f, i, Len(f), sum)

\* the loop of calculateCorrelationSimilarity: <<numerator, sum1Sq, sum2Sq>>
CorrelationAcc(acc, diff1, diff2) ==
    << FAdd(acc[1], FMul(diff1, diff2)),
       FAdd(acc[2], FMul(diff1, diff1)),
       FAdd(acc[3], FMul(diff2, diff2)) >>

RECURSIVE CorrelationRange(_, _, _, _, _, _, _)
CorrelationRange(f1, f2, mean1, mean2, lo, hi, acc) ==
    IF lo > hi THEN acc
    ELSE IF lo = hi
    THEN CorrelationAcc(acc, FSub(f1[lo], mean1), FSub(f2[lo], mean2))
    ELSE CHOOSE t \in
             { CorrelationRange(f1, f2, mean1, mean2, ((lo + hi) \div 2) + 1, hi, half) :
                   half \in {CorrelationRange(f1, f2, mean1, mean2, lo,
                                              (lo + hi) \div 2, acc)} } : TRUE

CorrelationLoop(f1, f2, mean1, mean2, i, acc) ==
    CorrelationRange(f1, f2, mean1, mean2, i, Len(f1), acc)

CorrelationOf(numerator, denominator) ==
    IF IsZero(denominator) THEN FZero ELSE FAbs(FDiv(numerator, denominator))

\* t = <<numerator, sum1Sq, sum2Sq>>
CorrelationFrom(t) == CorrelationOf(t[1], FSqrt(FMul(t[2], t[3])))

Mean(f, n) == FDiv(SumFrom(f, 1, FZero), n)

CorrelationMeans(f1, f2, n) ==
    CorrelationFrom(CorrelationLoop(f1, f2, Mean(f1, n), Mean(f2, n), 1, Triple0))

calculateCorrelationSimilarity(f1, f2) == CorrelationMeans(f1, f2, FromInt(Len(f1)))

Combine3(cosineSim, euclideanSim, correlationSim) ==
    FAdd(FAdd(FMul(cosineSim, CosineWeight), FMul(euclideanSim, EuclideanWeight)),
         FMul(correlationSim, CorrelationWeight))

Clamp01(finalSimilarity) == FMax(FZero, FMin(One, finalSimilarity))

\* the metrics combined, for two arrays of one length: the three consts are
\* computed in the order of their declarations, then weighted and clamped
CombinedSimilarity(f1, f2) ==
    CHOOSE finalSimilarity \in
        { Clamp01(Combine3(cosineSim, euclideanSim, correlationSim)) :
              cosineSim \in {calculateCosineSimilarity(f1, f2)},
              euclideanSim \in {calculateEuclideanSimilarity(f1, f2)},
              correlationSim \in {calculateCorrelationSimilarity(f1, f2)} } : TRUE

\* !features1 is true of null and undefined only: an empty array is truthy
calculateAdvancedSimilarity(features1, features2) ==
    IF ~features1.present \/ ~features2.present
       \/ Len(features1.v) # Len(features2.v)
    THEN FZero
    ELSE CombinedSimilarity(features1.v, features2.v)

(***************************************************************************)
(* Ranking: findAdvancedSimilarProducts and its helpers.                   *)
(***************************************************************************)
\* the value null of inferCategoryFromFeatures; no product category equals it
Null == "<null>"

\* String.prototype.toLowerCase on the category names of the catalogue
ToLowerCase(s) ==
    CASE s = "Fashion" -> "fashion"
      [] s = "Electronics" -> "electronics"
      [] s = "Tools" -> "tools"
      [] OTHER -> s

\* features[i] || 0 for a 0-based index i: a missing element, NaN and 0 give 0
ElementOrZero(features, i) ==
    IF i < 0 \/ i >= Len(features) THEN FZero
    ELSE IF IsNaN(features[i + 1]) THEN FZero
    ELSE features[i + 1]

\* the rules with Fashion given to the bright fingerprints
InferBrightFashion(avgBrightness, avgContrast) ==
    IF FGt(avgBrightness, Dec(8, 10)) /\ FLt(avgContrast, Dec(3, 10)) THEN "Electronics"
    ELSE IF FGt(avgBrightness, Dec(4, 10)) THEN "Fashion"
    ELSE IF FGt(avgContrast, Dec(6, 10)) THEN "Tools"
    ELSE Null

InferFrom(avgBrightness, avgContrast) ==
    IF FGt(avgBrightness, Dec(8, 10)) /\ FLt(avgContrast, Dec(3, 10)) THEN "Electronics"
    ELSE IF FLt(avgBrightness, Dec(4, 10)) THEN "Fashion"
    ELSE IF FGt(avgContrast, Dec(6, 10)) THEN "Tools"
    ELSE Null

inferCategoryFromFeatures(features) ==
    IF ~features.present \/ Len(features.v) = 0 THEN Null
    ELSE InferFrom(ElementOrZero(features.v, Len(features.v) - 3),
                   ElementOrZero(features.v, Len(features.v) - 1))

\* prices.reduce((sum, price) => sum + price, 0)
RECURSIVE PriceSum(_, _, _)
PriceSum(allProducts, i, sum) ==
    IF i > Len(allProducts) THEN sum
    ELSE PriceSum(allProducts, i + 1, FAdd(sum, allProducts[i].price))

PriceRelevanceOf(productPrice, avgPrice) ==
    FMax(FZero, FSub(One, FDiv(FAbs(FSub(productPrice, avgPrice)), avgPrice)))

calculatePriceRelevance(productPrice, allProducts) ==
    PriceRelevanceOf(productPrice,
                     FDiv(PriceSum(allProducts, 1, FZero), FromInt(Len(allProducts))))

getPriceRange(price) ==
    IF FLt(price, FromInt(30)) THEN "budget"
    ELSE IF FLt(price, FromInt(100)) THEN "mid-range"
    ELSE IF FLt(price, FromInt(300)) THEN "premium"
    ELSE "luxury"

\* priceWeight * 0.05
PriceFactor == Dec(5, 100)

\* the boost is added when a category was inferred and it equals the product's
\* category up to letter case
BoostedSimilarity(baseSimilarity, inferredCategory, product, categoryBoost) ==
    IF inferredCategory # Null
       /\ ToLowerCase(product.category) = ToLowerCase(inferredCategory)
    THEN FAdd(baseSimilarity, categoryBoost)
    ELSE baseSimilarity

\* the object the map callback returns for one product
ScoredProduct(product, baseSimilarity, priceWeight, inferredCategory) ==
    [ id |-> product.id,
      category |-> product.category,
      price |-> product.price,
      similarity |-> FMin(One, FAdd(baseSimilarity, FMul(priceWeight, PriceFactor))),
      baseSimilarity |-> baseSimilarity,
      categoryMatch |-> inferredCategory = product.category,
      priceRange |-> getPriceRange(product.price) ]

ScoreProduct(uploadedFeatures, product, allProducts, categoryBoost) ==
    CHOOSE scored \in
        { ScoredProduct(product,
                        BoostedSimilarity(baseSimilarity, inferredCategory,
                                          product, categoryBoost),
                        priceWeight, inferredCategory) :
              baseSimilarity \in
                  {calculateAdvancedSimilarity(uploadedFeatures, product.colorFeatures)},
              inferredCategory \in {inferCategoryFromFeatures(uploadedFeatures)},
              priceWeight \in {calculatePriceRelevance(product.price, allProducts)} } : TRUE

\* products.map(product => ...)
ScoreAll(uploadedFeatures, allProducts, categoryBoost) ==
    SubSeq([i \in 1..Len(allProducts) |->
               ScoreProduct(uploadedFeatures, allProducts[i], allProducts, categoryBoost)],
           1, Len(allProducts))

\* the sign of a Number a comparator returns; sort reads NaN as +0
Sign(x) == IF IsNaN(x) \/ IsZero(x) THEN 0 ELSE IF x.s = 1 THEN -1 ELSE 1

\* a boolean as an operand of -
BoolNum(b) == IF b THEN 1 ELSE 0

\* within 0.05 of each other means tied on score
TieBand == Dec(5, 100)

ReferencePrice == FromInt(100)

PriceDistance(price) == FAbs(FSub(price, ReferencePrice))

\* a comparator that looks at the price alone
ComparePriceOnly(a, b) ==
    Sign(FSub(PriceDistance(a.price), PriceDistance(b.price)))

\* a comparator that looks at the score alone
CompareScoreOnly(a, b) == Sign(FSub(b.similarity, a.similarity))

\* the sign of the comparator passed to sort
compare(a, b) ==
    IF FGt(FAbs(FSub(b.similarity, a.similarity)), TieBand)
    THEN Sign(FSub(b.similarity, a.similarity))
    ELSE IF a.categoryMatch # b.categoryMatch
    THEN BoolNum(b.categoryMatch) - BoolNum(a.categoryMatch)
    ELSE Sign(FSub(PriceDistance(a.price), PriceDistance(b.price)))

\* the signs the comparator gives the pairs of elements of s
CompareRow(s, i) == SubSeq([j \in 1..Len(s) |-> compare(s[i], s[j])], 1, Len(s))

CompareAll(s) == SubSeq([i \in 1..Len(s) |-> CompareRow(s, i)], 1, Len(s))

\* ECMAScript's consistent comparator, c = CompareAll(s): the signs are
\* antisymmetric and each of <, = and > is transitive over the elements
ConsistentComparator(c) ==
    \A i, j, k \in 1..Len(c) :
        /\ c[i][j] = -c[j][i]
        /\ (c[i][j] = 0 /\ c[j][k] = 0) => c[i][k] = 0
        /\ (c[i][j] < 0 /\ c[j][k] < 0) => c[i][k] < 0

\* p lists the indices in sorted order, equal elements in their first order
StableSorted(c, p) ==
    \A i, j \in 1..Len(c) :
        i < j => \/ c[p[i]][p[j]] < 0
                 \/ c[p[i]][p[j]] = 0 /\ p[i] < p[j]

SortOrdersOf(c) ==
    IF ConsistentComparator(c)
    THEN {p \in Permutations(1..Len(c)) : StableSorted(c, p)}
    ELSE Permutations(1..Len(c))

\* Array.prototype.sort: the stable sorted order when the comparator is
\* consistent, otherwise an implementation-defined order
SortOrders(s) == UNION { SortOrdersOf(c) : c \in {CompareAll(s)} }

Reorder(s, p) == SubSeq([i \in 1..Len(s) |-> s[p[i]]], 1, Len(s))

\* slice(0, limit) for a limit >= 0
\* a slice that keeps the whole array
SliceAll(s, n) == s

\* s.slice(0, n)
Slice(s, n) == SubSeq(s, 1, Min2(n, Len(s)))

SimilarityFloor == Dec(15, 100)

\* the callback that keeps every entry
KeepAll(product) == TRUE

\* the filter callback
AboveFloor(product) == FGt(product.similarity, SimilarityFloor)

\* sort(...).slice(0, limit).filter(...) for one outcome p of the sort
SliceAndFilter(s, p, n) == SelectSeq(Slice(Reorder(s, p), n), AboveFloor)

(***************************************************************************)
(* Feature extraction.  sharp is outside the repository: what it hands an  *)
(* extractor is a small raster of the image at that extractor's size.  An  *)
(* image is one colour (kind "solid") or a left and a right half (kind     *)
(* "split"); a colour is its RGB triple and the grey level sharp gives it. *)
(***************************************************************************)
\* the side of the greyscale rasters (64 in the source)
GraySide == 3

\* the side of the colour rasters (128 and 32 in the source)
ColorSide == 1

Colour(r, g, b, gray) == [rgb |-> <<r, g, b>>, gray |-> gray]

\* the pixel with 1-based index i of a raster of the given side
PixelAt(image, i, side) ==
    IF image.kind = "split" /\ 2 * ((i - 1) % side) >= side THEN image.right
    ELSE image.left

\* sharp(buffer, raw).resize(side, side).raw().toBuffer(), a pixel per element
SharpRaw(image, side) ==
    SubSeq([i \in 1..side * side |-> PixelAt(image, i, side).rgb], 1, side * side)

\* sharp(buffer, raw).resize(side, side).grayscale().raw().toBuffer()
SharpGray(image, side) ==
    SubSeq([i \in 1..side * side |-> PixelAt(image, i, side).gray], 1, side * side)

\* new Array(n).fill(0)
Zeros(n) == SubSeq([i \in 1..n |-> FZero], 1, n)

\* a natural number below 2^30 from its limbs
BToNat(a) ==
    IF a = <<>> THEN 0 ELSE IF Len(a) = 1 THEN a[1] ELSE a[1] + Base * a[2]

\* Math.floor(x) for 0 <= x < 2^30
FloorNat(x) ==
    IF IsZero(x) THEN 0
    ELSE IF x.e >= 0 THEN BToNat(BShl(x.m, x.e))
    ELSE BToNat(BShr(x.m, -x.e)[1])

\* Math.min(Math.floor(x * bins), bins - 1) as an array index; -1 stands
\* for a value that is no index (NaN or negative)
BinOfProduct(p, bins) ==
    IF IsNaN(p) \/ FLt(p, FZero) THEN -1
    ELSE IF FGe(p, FromInt(bins - 1)) THEN bins - 1
    ELSE FloorNat(p)

BinOf(x, bins) == BinOfProduct(FMul(x, FromInt(bins)), bins)

\* an array of size zeros after array[index]++ for each index: an index
\* past the end would lengthen the array, a value that is no index adds no
\* element
TallyLength(indices, size) ==
    IF \E i \in 1..Len(indices) : indices[i] >= size
    THEN 1 + CHOOSE m \in {indices[i] : i \in 1..Len(indices)} :
                 \A i \in 1..Len(indices) : indices[i] <= m
    ELSE size

CountOf(indices, k) == Cardinality({i \in 1..Len(indices) : indices[i] = k})

TallyOfLength(indices, size, n) ==
    SubSeq([k \in 1..n |->
               IF k <= size THEN FromInt(CountOf(indices, k - 1))
               ELSE IF CountOf(indices, k - 1) > 0 THEN NaN ELSE FZero],
           1, n)

Tally(indices, size) == TallyOfLength(indices, size, TallyLength(indices, size))

\* histogram.map(count => count / total)
Normalize(histogram, total) ==
    SubSeq([k \in 1..Len(histogram) |-> FDiv(histogram[k], total)], 1, Len(histogram))

Four == FromInt(4)
Six == FromInt(6)
Byte == FromInt(255)

\* x % 6 for a quotient x of two differences, which lies in [-1, 1]
Rem6(x) == IF FLt(FAbs(x), Six) THEN x ELSE NaN

Hue(r, g, b, max, diff) ==
    IF IsZero(diff) THEN FZero
    ELSE IF max = r THEN Rem6(FDiv(FSub(g, b), diff))
    ELSE IF max = g THEN FAdd(FDiv(FSub(b, r), diff), Two)
    ELSE FAdd(FDiv(FSub(r, g), diff), Four)

\* h = h / 6; if (h < 0) h += 1
WrapHue(h) == IF FLt(h, FZero) THEN FAdd(h, One) ELSE h

HsvOf(r, g, b, max, diff) ==
    << WrapHue(FDiv(Hue(r, g, b, max, diff), Six)),
       IF IsZero(max) THEN FZero ELSE FDiv(diff, max),
       max >>

HsvFrom(r, g, b, max, min) == HsvOf(r, g, b, max, FSub(max, min))

rgbToHsv(r, g, b) == HsvFrom(r, g, b, FMax(FMax(r, g), b), FMin(FMin(r, g), b))

\* the constants of the HSV histogram
hBins == 16
sBins == 8
vBins == 8

HistogramIndexOf(hBin, sBin, vBin) ==
    IF hBin < 0 \/ sBin < 0 \/ vBin < 0 THEN -1
    ELSE hBin * sBins * vBins + sBin * vBins + vBin

HistogramIndex(hsv) ==
    HistogramIndexOf(BinOf(hsv[1], hBins), BinOf(hsv[2], sBins), BinOf(hsv[3], vBins))

\* the histogram index of the pixel <<r, g, b>> of the sample buffer
PixelIndex(p) ==
    HistogramIndex(rgbToHsv(FDiv(FromInt(p[1]), Byte), FDiv(FromInt(p[2]), Byte),
                            FDiv(FromInt(p[3]), Byte)))

PixelIndices(sampleBuffer) ==
    SubSeq([i \in 1..Len(sampleBuffer) |-> PixelIndex(sampleBuffer[i])],
           1, Len(sampleBuffer))

HistogramOf(sampleBuffer) ==
    CHOOSE h \in { Normalize(Tally(indices, hBins * sBins * vBins),
                             FromInt(Len(sampleBuffer))) :
                       indices \in {PixelIndices(sampleBuffer)} } : TRUE

\* threw: the sharp call throws, and the catch block returns the zeros
extractColorHistogram(image, threw) ==
    IF threw THEN Zeros(1024) ELSE HistogramOf(SharpRaw(image, ColorSide))

\* buffer[y * width + x]
At(buffer, x, y, width) == buffer[y * width + x + 1]

\* the interior pixels (1 <= x, y < side - 1) in row order: the j-th one
InteriorX(j, side) == 1 + ((j - 1) % (side - 2))
InteriorY(j, side) == 1 + ((j - 1) \div (side - 2))
InteriorCount(side) == (side - 2) * (side - 2)

IsInterior(i, side) ==
    /\ ((i - 1) % side) >= 1 /\ ((i - 1) % side) < side - 1
    /\ ((i - 1) \div side) >= 1 /\ ((i - 1) \div side) < side - 1

sobelX == <<-1, 0, 1, -2, 0, 2, -1, 0, 1>>
sobelY == <<-1, -2, -1, 0, 0, 0, 1, 2, 1>>

\* the kernel applied to the 3 x 3 window around (x, y), from element k on
RECURSIVE Convolve(_, _, _, _, _, _)
Convolve(buffer, x, y, width, kernel, k) ==
    IF k > 9 THEN 0
    ELSE At(buffer, x + ((k - 1) % 3) - 1, y + ((k - 1) \div 3) - 1, width) * kernel[k]
         + Convolve(buffer, x, y, width, kernel, k + 1)

\* Math.sqrt(gx * gx + gy * gy)
Magnitude(gx, gy) == FSqrt(FromInt(gx * gx + gy * gy))

EdgeStrengthAt(grayBuffer, x, y, width) ==
    Magnitude(Convolve(grayBuffer, x, y, width, sobelX, 1),
              Convolve(grayBuffer, x, y, width, sobelY, 1))

EdgeStrengths(grayBuffer, side) ==
    SubSeq([i \in 1..side * side |->
               IF IsInterior(i, side)
               THEN EdgeStrengthAt(grayBuffer, (i - 1) % side, (i - 1) \div side, side)
               ELSE FZero],
           1, side * side)

\* Math.max(...values), from element i on
RECURSIVE MaxFrom(_, _, _)
MaxFrom(values, i, m) ==
    IF i > Len(values) THEN m ELSE MaxFrom(values, i + 1, FMax(m, values[i]))

edgeBins == 16

EdgeIndices(edgeStrength, maxEdge) ==
    SubSeq([i \in 1..Len(edgeStrength) |-> BinOf(FDiv(edgeStrength[i], maxEdge), edgeBins)],
           1, Len(edgeStrength))

EdgeCounts(edgeStrength, maxEdge) ==
    IF FGt(maxEdge, FZero)
    THEN CHOOSE h \in { Tally(indices, edgeBins) :
                            indices \in {EdgeIndices(edgeStrength, maxEdge)} } : TRUE
    ELSE Zeros(edgeBins)

EdgeHistogram(edgeStrength) ==
    CHOOSE h \in { Normalize(EdgeCounts(edgeStrength, maxEdge),
                             FromInt(Len(edgeStrength))) :
                       maxEdge \in {MaxFrom(edgeStrength, 1, Inf(1))} } : TRUE

EdgeFeaturesOf(grayBuffer, side) ==
    CHOOSE h \in { EdgeHistogram(edgeStrength) :
                       edgeStrength \in
                           {EdgeStrengths(grayBuffer, side)} } : TRUE

extractEdgeFeatures(image, threw) ==
    IF threw THEN Zeros(16) ELSE EdgeFeaturesOf(SharpGray(image, GraySide), GraySide)

\* the offsets of the 8 neighbours, in the order of the source
neighborX == <<-1, 0, 1, 1, 1, 0, -1, -1>>
neighborY == <<-1, -1, -1, 0, 1, 1, 1, 0>>

\* lbpValue |= (1 << i) for each neighbour i >= the centre, from bit i on
RECURSIVE LbpValue(_, _, _, _, _)
LbpValue(grayBuffer, x, y, width, i) ==
    IF i > 7 THEN 0
    ELSE (IF At(grayBuffer, x + neighborX[i + 1], y + neighborY[i + 1], width)
              >= At(grayBuffer, x, y, width)
          THEN 2 ^ i ELSE 0)
         + LbpValue(grayBuffer, x, y, width, i + 1)

LbpValues(grayBuffer, side) ==
    SubSeq([j \in 1..InteriorCount(side) |->
               LbpValue(grayBuffer, InteriorX(j, side), InteriorY(j, side), side, 0)],
           1, InteriorCount(side))

lbpBins == 256

\* a histogram in which a pixel whose 8 neighbours are all at least as
\* bright is not counted
LbpCountsBelow255(grayBuffer, side) ==
    Tally(SelectSeq(LbpValues(grayBuffer, side), LAMBDA v : v < 255), lbpBins)

\* lbpHistogram when the loops end
LbpCounts(grayBuffer, side) == Tally(LbpValues(grayBuffer, side), lbpBins)

LbpHistogram(grayBuffer, side) ==
    Normalize(LbpCounts(grayBuffer, side), FromInt(InteriorCount(side)))

extractTextureFeatures(image, threw) ==
    IF threw THEN Zeros(256) ELSE LbpHistogram(SharpGray(image, GraySide), GraySide)

threshold == 128

\* buffer[i] > threshold ? 1 : 0
Binary(buffer, i) == IF buffer[i] > threshold THEN 1 ELSE 0

\* b^p for p up to 2
Power(b, p) == IF p = 0 THEN 1 ELSE IF p = 1 THEN b ELSE b * b

\* the sum of x^p * y^q * pixel over the pixels i, i + 1, ...
RECURSIVE Moment(_, _, _, _, _)
Moment(buffer, side, p, q, i) ==
    IF i > Len(buffer) THEN 0
    ELSE Power((i - 1) % side, p) * Power((i - 1) \div side, q) * Binary(buffer, i)
         + Moment(buffer, side, p, q, i + 1)

\* whether the pixel at (x, y) is inside the buffer and above the threshold
IsSet(buffer, x, y, side) ==
    /\ x >= 0 /\ x < side /\ y >= 0 /\ y < side
    /\ At(buffer, x, y, side) > threshold

IsBoundary(buffer, x, y, side) ==
    /\ IsSet(buffer, x, y, side)
    /\ \/ ~IsSet(buffer, x, y - 1, side)
       \/ ~IsSet(buffer, x + 1, y, side)
       \/ ~IsSet(buffer, x, y + 1, side)
       \/ ~IsSet(buffer, x - 1, y, side)

calculatePerimeter(buffer, side) ==
    Cardinality({i \in 1..Len(buffer) :
                     IsBoundary(buffer, (i - 1) % side, (i - 1) \div side, side)})

\* Math.PI
Pi == [k |-> "num", s |-> 0, e |-> -51, m |-> <<11544, 10376, 2029, 201>>]

\* <<mu20, mu11, mu02>>
CentralMoments(m00, m10, m01, m20, m11, m02) ==
    LET xc == FDiv(m10, m00)
        yc == FDiv(m01, m00)
    IN  << FSub(FDiv(m20, m00), FMul(xc, xc)),
           FSub(FDiv(m11, m00), FMul(xc, yc)),
           FSub(FDiv(m02, m00), FMul(yc, yc)) >>

\* mu / Math.pow(m00, 2)
Eta(mu, m00) == FDiv(mu, FMul(m00, m00))

Compactness(m00, perimeter) ==
    IF perimeter > 0
    THEN FDiv(FMul(FMul(Four, Pi), m00), FromInt(perimeter * perimeter))
    ELSE FZero

AspectRatio(mu20, mu02) ==
    IF FGt(mu20, FZero) /\ FGt(mu02, FZero) THEN FSqrt(FDiv(mu20, mu02)) ELSE One

\* [hu1, hu2, compactness, aspectRatio, eta20, eta11, eta02]
ShapeVector(mu, eta20, eta11, eta02, m00, perimeter) ==
    << FAdd(eta20, eta02),
       FAdd(Square(FSub(eta20, eta02)), FMul(FMul(Four, eta11), eta11)),
       Compactness(m00, perimeter),
       AspectRatio(mu[1], mu[3]),
       eta20, eta11, eta02 >>

ShapeOfCentral(mu, m00, perimeter) ==
    ShapeVector(mu, Eta(mu[1], m00), Eta(mu[2], m00), Eta(mu[3], m00), m00, perimeter)

\* m = <<m00, m10, m01, m20, m11, m02>>
ShapeOfMoments(m, perimeter) ==
    IF m[1] = 0 THEN Zeros(7)
    ELSE CHOOSE v \in
             { ShapeOfCentral(mu, FromInt(m[1]), perimeter) :
                   mu \in {CentralMoments(FromInt(m[1]), FromInt(m[2]), FromInt(m[3]),
                                          FromInt(m[4]), FromInt(m[5]), FromInt(m[6]))} } : TRUE

ShapeOf(grayBuffer, side) ==
    ShapeOfMoments(<< Moment(grayBuffer, side, 0, 0, 1), Moment(grayBuffer, side, 1, 0, 1),
                      Moment(grayBuffer, side, 0, 1, 1), Moment(grayBuffer, side, 2, 0, 1),
                      Moment(grayBuffer, side, 1, 1, 1), Moment(grayBuffer, side, 0, 2, 1) >>,
                   calculatePerimeter(grayBuffer, side))

\* a catch block that returns one zero too many
ShapeFeaturesEightZeros(image, threw) ==
    IF threw THEN Zeros(8) ELSE ShapeOf(SharpGray(image, GraySide), GraySide)

extractShapeFeatures(image, threw) ==
    IF threw THEN Zeros(7) ELSE ShapeOf(SharpGray(image, GraySide), GraySide)

\* the constants of the k-means clustering
K == 5
maxIterations == 10

\* a pixel of the resized buffer as a point of Numbers
Point(p) == <<FromInt(p[1]), FromInt(p[2]), FromInt(p[3])>>

Points(resizedBuffer) ==
    SubSeq([i \in 1..Len(resizedBuffer) |-> Point(resizedBuffer[i])], 1, Len(resizedBuffer))

euclideanDistance(point1, point2) ==
    FSqrt(FAdd(FAdd(Square(FSub(point1[1], point2[1])),
                    Square(FSub(point1[2], point2[2]))),
               Square(FSub(point1[3], point2[3]))))

\* the centroids.forEach of the assignment: the first centroid at the least
\* distance, from centroid index on
RECURSIVE ClosestFrom(_, _, _, _, _)
ClosestFrom(pixel, centroids, index, minDist, closestCluster) ==
    IF index > Len(centroids) THEN closestCluster
    ELSE LET dist == euclideanDistance(pixel, centroids[index])
         IN  IF FLt(dist, minDist)
             THEN ClosestFrom(pixel, centroids, index + 1, dist, index)
             ELSE ClosestFrom(pixel, centroids, index + 1, minDist, closestCluster)

\* the cluster of each pixel
Assign(pixels, centroids) ==
    SubSeq([i \in 1..Len(pixels) |-> ClosestFrom(pixels[i], centroids, 1, Inf(0), 1)],
           1, Len(pixels))

\* cluster.reduce over the pixels of cluster c, from pixel i on
RECURSIVE ClusterSum(_, _, _, _, _)
ClusterSum(pixels, clusters, c, i, acc) ==
    IF i > Len(pixels) THEN acc
    ELSE IF clusters[i] = c /\ Len(acc) = 3
    THEN ClusterSum(pixels, clusters, c, i + 1,
                    << FAdd(acc[1], pixels[i][1]), FAdd(acc[2], pixels[i][2]),
                       FAdd(acc[3], pixels[i][3]) >>)
    ELSE ClusterSum(pixels, clusters, c, i + 1, acc)

MeanPoint(sum, length) ==
    <<FDiv(sum[1], length), FDiv(sum[2], length), FDiv(sum[3], length)>>

Origin == <<FZero, FZero, FZero>>

UpdateCentroid(pixels, clusters, c) ==
    IF CountOf(clusters, c) = 0 THEN Origin
    ELSE MeanPoint(ClusterSum(pixels, clusters, c, 1, Origin),
                   FromInt(CountOf(clusters, c)))

UpdateCentroids(pixels, clusters) ==
    SubSeq([c \in 1..K |-> UpdateCentroid(pixels, clusters, c)], 1, K)

\* one iteration: assign the pixels, then move the centroids
Iterate(pixels, centroids) ==
    CHOOSE next \in { UpdateCentroids(pixels, clusters) :
                          clusters \in {Assign(pixels, centroids)} } : TRUE

RECURSIVE KMeans(_, _, _)
KMeans(pixels, centroids, iter) ==
    IF iter >= maxIterations \/ Len(centroids) # K THEN centroids
    ELSE KMeans(pixels, Iterate(pixels, centroids), iter + 1)

\* centroids.flat().map(val => val / 255)
FlatNormalized(centroids) ==
    SubSeq([j \in 1..3 * Len(centroids) |->
               FDiv(centroids[((j - 1) \div 3) + 1][((j - 1) % 3) + 1], Byte)],
           1, 3 * Len(centroids))

\* first centroids made of the picked indices instead of the picked pixels
CentroidsFromPicks(pixels, draws) ==
    SubSeq([i \in 1..K |-> Point(<<draws[i], draws[i], draws[i]>>)], 1, K)

\* the pixels Math.random picks as the first centroids
InitialCentroids(pixels, draws) == SubSeq([i \in 1..K |-> pixels[draws[i]]], 1, K)

DominantOf(pixels, draws) ==
    FlatNormalized(KMeans(pixels, InitialCentroids(pixels, draws), 0))

DominantColorsOf(resizedBuffer, draws) ==
    CHOOSE v \in { DominantOf(pixels, draws) :
                       pixels \in {Points(resizedBuffer)} } : TRUE

\* draws[i] is the index of the pixel that
\* Math.floor(Math.random() * pixels.length) picks for centroid i
extractDominantColors(image, draws, threw) ==
    IF threw THEN Zeros(15) ELSE DominantColorsOf(SharpRaw(image, ColorSide), draws)

\* pixels.reduce((sum, pixel) => sum + pixel, 0)
RECURSIVE IntSum(_, _)
IntSum(pixels, i) == IF i > Len(pixels) THEN 0 ELSE pixels[i] + IntSum(pixels, i + 1)

\* Math.pow(x, 3), up to the rounding of the platform's pow
Cube(x) == FMul(FMul(x, x), x)

\* Math.pow(x, 1.5), up to the rounding of the platform's pow
PowThreeHalves(x) == FMul(x, FSqrt(x))

\* the sum of (pixel - mean)^2, from pixel i on
RECURSIVE SquaredDeviations(_, _, _, _)
SquaredDeviations(pixels, mean, i, sum) ==
    IF i > Len(pixels) \/ IsNaN(sum) THEN sum
    ELSE SquaredDeviations(pixels, mean, i + 1,
                           FAdd(sum, Square(FSub(FromInt(pixels[i]), mean))))

\* the sum of (pixel - mean)^3, from pixel i on
RECURSIVE CubedDeviations(_, _, _, _)
CubedDeviations(pixels, mean, i, sum) ==
    IF i > Len(pixels) \/ IsNaN(sum) THEN sum
    ELSE CubedDeviations(pixels, mean, i + 1,
                         FAdd(sum, Cube(FSub(FromInt(pixels[i]), mean))))

Skewness(pixels, mean, variance) ==
    IF FGt(variance, FZero)
    THEN FDiv(CubedDeviations(pixels, mean, 1, FZero),
              FMul(FromInt(Len(pixels)), PowThreeHalves(variance)))
    ELSE FZero

BrightnessVector(pixels, mean, variance) ==
    << FDiv(mean, Byte), FDiv(variance, FMul(Byte, Byte)), Skewness(pixels, mean, variance) >>

BrightnessOfMean(pixels, mean) ==
    CHOOSE v \in { BrightnessVector(pixels, mean, variance) :
                       variance \in {FDiv(SquaredDeviations(pixels, mean, 1, FZero),
                                          FromInt(Len(pixels)))} } : TRUE

BrightnessOf(pixels) ==
    CHOOSE v \in { BrightnessOfMean(pixels, mean) :
                       mean \in {FDiv(FromInt(IntSum(pixels, 1)), FromInt(Len(pixels)))} } : TRUE

extractBrightnessFeatures(image, threw) ==
    IF threw THEN Zeros(3) ELSE BrightnessOf(SharpGray(image, GraySide))

Distance(a, b) == IF a >= b THEN a - b ELSE b - a

\* neighbors.reduce((sum, neighbor) => sum + Math.abs(center - neighbor), 0) / 4
LocalContrast(grayBuffer, x, y, width) ==
    FDiv(FromInt(Distance(At(grayBuffer, x, y, width), At(grayBuffer, x, y - 1, width))
                 + Distance(At(grayBuffer, x, y, width), At(grayBuffer, x + 1, y, width))
                 + Distance(At(grayBuffer, x, y, width), At(grayBuffer, x, y + 1, width))
                 + Distance(At(grayBuffer, x, y, width), At(grayBuffer, x - 1, y, width))),
         Four)

\* totalContrast over the interior pixels j, j + 1, ...
RECURSIVE TotalContrast(_, _, _, _)
TotalContrast(grayBuffer, side, j, totalContrast) ==
    IF j > InteriorCount(side) \/ IsNaN(totalContrast) THEN totalContrast
    ELSE TotalContrast(grayBuffer, side, j + 1,
                       FAdd(totalContrast,
                            LocalContrast(grayBuffer, InteriorX(j, side),
                                          InteriorY(j, side), side)))

ContrastOf(grayBuffer, side) ==
    << FDiv(IF InteriorCount(side) > 0
            THEN FDiv(TotalContrast(grayBuffer, side, 1, FZero),
                      FromInt(InteriorCount(side)))
            ELSE FZero,
            Byte) >>

extractContrastFeatures(image, threw) ==
    IF threw THEN Zeros(1) ELSE ContrastOf(SharpGray(image, GraySide), GraySide)

\* the keys of the features object, in the order extractAdvancedFeatures
\* writes them, which is the order Object.entries gives
featureOrder ==
    << "colorHistogram", "edgeFeatures", "textureFeatures", "shapeFeatures",
       "dominantColors", "brightness", "contrast" >>

\* the keys of the weights table, in the order it lists them
weightOrder ==
    << "colorHistogram", "dominantColors", "edgeFeatures", "textureFeatures",
       "shapeFeatures", "brightness", "contrast" >>

weights ==
    [ colorHistogram |-> Dec(3, 10), dominantColors |-> Dec(25, 100),
      edgeFeatures |-> Dec(15, 100), textureFeatures |-> Dec(15, 100),
      shapeFeatures |-> Dec(1, 10), brightness |-> Dec(3, 100),
      contrast |-> Dec(2, 100) ]

\* weights[featureType] || 0.1
WeightOf(featureType) ==
    IF featureType \in DOMAIN weights /\ ~IsZero(weights[featureType])
    THEN weights[featureType]
    ELSE Dec(1, 10)

\* featureVector.map(val => val * weight)
Weighted(featureVector, weight) ==
    SubSeq([i \in 1..Len(featureVector) |-> FMul(featureVector[i], weight)],
           1, Len(featureVector))

\* the forEach over the entries, from entry i on
RECURSIVE CombineFrom(_, _, _, _)
CombineFrom(features, order, i, combined) ==
    IF i > Len(order) \/ Len(combined) < 0 THEN combined
    ELSE CombineFrom(features, order, i + 1,
                     combined \o Weighted(features[order[i]], WeightOf(order[i])))

\* the entries taken in the order of the weights table instead
CombineInWeightOrder(features) == CombineFrom(features, weightOrder, 1, <<>>)

combineFeatures(features) == CombineFrom(features, featureOrder, 1, <<>>)

\* new Array(n).fill(value)
Filled(n, value) == SubSeq([i \in 1..n |-> value], 1, n)

\* the lengths of the default and fallback vectors
urlDefaultLength == 1331
uploadFileFallbackLength == 1331
uploadUrlFallbackLength == 1331
seedFallbackLength == 1331

\* what a call ended with: nothing yet, a returned vector or a thrown error
NoValue == [status |-> "none", v |-> <<>>]
Returned(v) == [status |-> "returned", v |-> v]
Thrown == [status |-> "thrown", v |-> <<>>]

\* the catch block of extractFeaturesFromUrl returns the default vector
UrlOutcome(outcome) ==
    IF outcome.status = "returned" THEN outcome
    ELSE Returned(Filled(urlDefaultLength, Dec(1, 1000)))

\* the try and catch around extractAdvancedFeatures(req.file.buffer)
UploadFileFeatures(outcome) ==
    IF outcome.status = "returned" THEN outcome
    ELSE Returned(Filled(uploadFileFallbackLength, Dec(1, 1000)))

\* the try and catch around extractFeaturesFromUrl(req.body.imageUrl)
UploadUrlFeatures(outcome) ==
    IF outcome.status = "returned" THEN outcome
    ELSE Returned(Filled(uploadUrlFallbackLength, Dec(1, 1000)))

\* analysisQuality after the try and catch of the file branch
UploadFileQuality(outcome, quality) ==
    IF outcome.status = "returned" THEN quality
    ELSE [success |-> FALSE, score |-> Dec(5, 10)]

\* analysisQuality after the try and catch of the URL branch
UploadUrlQuality(outcome, quality) ==
    IF outcome.status = "returned" THEN quality
    ELSE [success |-> FALSE, score |-> Dec(3, 10)]

\* the colorFeatures of the product the seeder stores
SeedFeatures(outcome) ==
    IF outcome.status = "returned" THEN outcome
    ELSE Returned(Filled(seedFallbackLength, Dec(1, 1000)))

(***************************************************************************)
(* The search strategies of the upload route and the merge of their        *)
(* results.                                                                *)
(***************************************************************************)
\* the limits the upload route gives the three strategies, and the size of
\* its final list
GlobalLimit == 8
CategoryLimit == 6
PriceLimit == 4
FinalResultSize == 12

\* the limit of the match inside one category
PerCategory == 2

\* the number of most similar products whose prices are averaged
TopCount == 5

\* the default of the categoryBoost parameter
DefaultCategoryBoost == Dec(1, 10)

RankResultsOf(scored, n) == { SliceAndFilter(scored, p, n) : p \in SortOrders(scored) }

\* the arrays findAdvancedSimilarProducts can return: one for each order
\* the sort can leave the candidates in
RankResults(uploadedFeatures, products, limit, categoryBoost) ==
    UNION { RankResultsOf(scored, limit) :
                scored \in {ScoreAll(uploadedFeatures, products, categoryBoost)} }

\* { ...object, ...extra }
Spread(object, extra) ==
    [f \in DOMAIN object \cup DOMAIN extra |->
        IF f \in DOMAIN extra THEN extra[f] ELSE object[f]]

\* array.map(product => ({ ...product, ...extra }))
SpreadAll(array, extra) ==
    SubSeq([i \in 1..Len(array) |-> Spread(array[i], extra)], 1, Len(array))

\* the place of x in an array sorted by (a, b) => b.similarity - a.similarity:
\* after every entry whose similarity is not lower
RECURSIVE InsertBySimilarity(_, _, _)
InsertBySimilarity(sorted, x, i) ==
    IF i > Len(sorted) THEN Append(sorted, x)
    ELSE IF FGt(x.similarity, sorted[i].similarity)
         THEN SubSeq(sorted, 1, i - 1) \o <<x>> \o SubSeq(sorted, i, Len(sorted))
         ELSE InsertBySimilarity(sorted, x, i + 1)

RECURSIVE SortFrom(_, _, _)
SortFrom(array, i, sorted) ==
    IF i > Len(array) THEN sorted
    ELSE SortFrom(array, i + 1, InsertBySimilarity(sorted, array[i], 1))

\* array.sort((a, b) => b.similarity - a.similarity), a stable sort
SortBySimilarity(array) == SortFrom(array, 1, <<>>)

\* the keys of categorizedProducts in insertion order
RECURSIVE CategoriesFrom(_, _, _)
CategoriesFrom(products, i, keys) ==
    IF i > Len(products) THEN keys
    ELSE CategoriesFrom(products, i + 1,
             IF \E j \in 1..Len(keys) : keys[j] = products[i].category
             THEN keys ELSE Append(keys, products[i].category))

InCategory(products, category) ==
    SelectSeq(products, LAMBDA product : product.category = category)

\* every match of a category instead of its best two
CategoryMatchesWhole(uploadedFeatures, categoryProducts, category) ==
    { SpreadAll(categoryMatches, [matchType |-> "category-aware", category |-> category]) :
          categoryMatches \in RankResults(uploadedFeatures, categoryProducts,
                                          Len(categoryProducts), DefaultCategoryBoost) }

\* the entries one category adds to categoryResults
CategoryMatches(uploadedFeatures, categoryProducts, category) ==
    { SpreadAll(categoryMatches, [matchType |-> "category-aware", category |-> category]) :
          categoryMatches \in RankResults(uploadedFeatures, categoryProducts,
                                          PerCategory, DefaultCategoryBoost) }

\* the arrays categoryResults can be after the categories from the i-th on
RECURSIVE CategoryResultsFrom(_, _, _, _)
CategoryResultsFrom(uploadedFeatures, products, keys, i) ==
    IF i > Len(keys) THEN {<<>>}
    ELSE { matches \o rest :
               matches \in CategoryMatches(uploadedFeatures,
                                           InCategory(products, keys[i]), keys[i]),
               rest \in CategoryResultsFrom(uploadedFeatures, products, keys, i + 1) }

CategoryAwareOf(categoryResults, limit) == Slice(SortBySimilarity(categoryResults), limit)

\* the arrays findCategoryAwareSimilarProducts can return
findCategoryAwareSimilarProducts(uploadedFeatures, products, limit) ==
    { CategoryAwareOf(categoryResults, limit) :
          categoryResults \in CategoryResultsFrom(uploadedFeatures, products,
                                  CategoriesFrom(products, 1, <<>>), 1) }

\* a bucketing that puts each boundary in the lower bucket
PriceRangeInclusive(price) ==
    IF FLe(price, FromInt(30)) THEN "budget"
    ELSE IF FLe(price, FromInt(100)) THEN "mid-range"
    ELSE IF FLe(price, FromInt(300)) THEN "premium"
    ELSE "luxury"

\* getPriceRange of the routes
getPriceRangeRoutes(price) ==
    IF FLt(price, FromInt(30)) THEN "budget"
    ELSE IF FLt(price, FromInt(100)) THEN "mid-range"
    ELSE IF FLt(price, FromInt(300)) THEN "premium"
    ELSE "luxury"

\* getPriceRange of the seeder
getPriceRangeSeeder(price) ==
    IF FLt(price, FromInt(30)) THEN "budget"
    ELSE IF FLt(price, FromInt(100)) THEN "mid-range"
    ELSE IF FLt(price, FromInt(300)) THEN "premium"
    ELSE "luxury"

\* productMetadata.priceRange as the pre-save hook of the Product model sets it
preSavePriceRange(price) ==
    IF FLt(price, FromInt(30)) THEN "budget"
    ELSE IF FLt(price, FromInt(100)) THEN "mid-range"
    ELSE IF FLt(price, FromInt(300)) THEN "premium"
    ELSE "luxury"

\* products.map(product => ({ ...product.toObject(), similarity: ... }))
PlainSimilarities(uploadedFeatures, products) ==
    SubSeq([i \in 1..Len(products) |->
               Spread(products[i],
                      [similarity |-> calculateAdvancedSimilarity(uploadedFeatures,
                                          products[i].colorFeatures)])],
           1, Len(products))

\* every product instead of the five most similar
AllSimilar(uploadedFeatures, products) ==
    SortBySimilarity(PlainSimilarities(uploadedFeatures, products))

\* similarities.sort(...).slice(0, 5)
TopSimilar(uploadedFeatures, products) ==
    Slice(SortBySimilarity(PlainSimilarities(uploadedFeatures, products)), TopCount)

AveragePrice(topSimilar) ==
    FDiv(PriceSum(topSimilar, 1, FZero), FromInt(Len(topSimilar)))

\* the callback of products.filter in findPriceAwareSimilarProducts
InPriceRange(product, avgPrice, priceRange) ==
    \/ getPriceRangeRoutes(product.price) = priceRange
    \/ FLt(FDiv(FAbs(FSub(product.price, avgPrice)), avgPrice), Half)

PriceFiltered(products, avgPrice, priceRange) ==
    SelectSeq(products, LAMBDA product : InPriceRange(product, avgPrice, priceRange))

PriceAwareFrom(uploadedFeatures, products, limit, avgPrice, priceRange) ==
    { SpreadAll(results, [matchType |-> "price-aware", inferredPriceRange |-> priceRange]) :
          results \in RankResults(uploadedFeatures,
                                  PriceFiltered(products, avgPrice, priceRange),
                                  limit, DefaultCategoryBoost) }

PriceAwareOf(uploadedFeatures, products, limit, topSimilar) ==
    IF Len(topSimilar) = 0 THEN {<<>>}
    ELSE UNION { PriceAwareFrom(uploadedFeatures, products, limit, avgPrice,
                                getPriceRangeRoutes(avgPrice)) :
                     avgPrice \in {AveragePrice(topSimilar)} }

\* the arrays findPriceAwareSimilarProducts can return
findPriceAwareSimilarProducts(uploadedFeatures, products, limit) ==
    UNION { PriceAwareOf(uploadedFeatures, products, limit, topSimilar) :
                topSimilar \in {TopSimilar(uploadedFeatures, products)} }

Strategy(name, products) == [name |-> name, products |-> products]

strategyWeights ==
    [ name \in {"AI Visual Similarity", "Category-Enhanced", "Price-Range Similar"} |->
        CASE name = "AI Visual Similarity" -> One
          [] name = "Category-Enhanced" -> Dec(8, 10)
          [] name = "Price-Range Similar" -> Dec(6, 10) ]

\* strategyWeights[strategy.name] || 0.5
StrategyWeight(name) ==
    IF name \in DOMAIN strategyWeights /\ ~IsZero(strategyWeights[name])
    THEN strategyWeights[name]
    ELSE Half

\* a merge that leaves the similarity as the strategy gave it
UnweightedResult(product, name) ==
    Spread(product, [similarity |-> product.similarity,
                     matchStrategy |-> name,
                     originalSimilarity |-> product.similarity])

\* the object combineSearchResults pushes for a product not seen before
WeightedResult(product, name) ==
    Spread(product, [similarity |-> FMul(product.similarity, StrategyWeight(name)),
                     matchStrategy |-> name,
                     originalSimilarity |-> product.similarity])

\* strategy.products.forEach: the pair of allResults and seenIds
RECURSIVE CombineProducts(_, _, _, _)
CombineProducts(strategy, i, allResults, seenIds) ==
    IF i > Len(strategy.products) THEN <<allResults, seenIds>>
    ELSE IF strategy.products[i].id \in seenIds
         THEN CombineProducts(strategy, i + 1, allResults, seenIds)
         ELSE CombineProducts(strategy, i + 1,
                  Append(allResults, WeightedResult(strategy.products[i], strategy.name)),
                  seenIds \cup {strategy.products[i].id})

\* searchStrategies.forEach
RECURSIVE CombineStrategies(_, _, _)
CombineStrategies(searchStrategies, i, state) ==
    IF i > Len(searchStrategies) THEN state[1]
    ELSE CombineStrategies(searchStrategies, i + 1,
             CombineProducts(searchStrategies[i], 1, state[1], state[2]))

combineSearchResults(searchStrategies) ==
    SortBySimilarity(CombineStrategies(searchStrategies, 1, <<<<>>, {}>>))

\* results.reduce((sum, p) => sum + p.similarity, 0)
RECURSIVE SimilaritySum(_, _, _)
SimilaritySum(results, i, sum) ==
    IF i > Len(results) \/ IsNaN(sum) THEN sum
    ELSE SimilaritySum(results, i + 1, FAdd(sum, results[i].similarity))

\* results.reduce((sum, p) => sum + Math.pow(p.similarity - avgSimilarity, 2), 0)
RECURSIVE DeviationSum(_, _, _, _)
DeviationSum(results, avgSimilarity, i, sum) ==
    IF i > Len(results) \/ IsNaN(sum) THEN sum
    ELSE DeviationSum(results, avgSimilarity, i + 1,
             FAdd(sum, Square(FSub(results[i].similarity, avgSimilarity))))

SimilarityVariance(results, avgSimilarity) ==
    FDiv(DeviationSum(results, avgSimilarity, 1, FZero), FromInt(Len(results)))

\* the three scores weighted 0.5, 0.2 and 0.3
ConfidenceOtherWeights(topScore, consistencyScore, quantityScore) ==
    FAdd(FAdd(FMul(topScore, Half), FMul(consistencyScore, Dec(2, 10))),
         FMul(quantityScore, Dec(3, 10)))

ConfidenceOf(topScore, consistencyScore, quantityScore) ==
    FAdd(FAdd(FMul(topScore, Half), FMul(consistencyScore, Dec(3, 10))),
         FMul(quantityScore, Dec(2, 10)))

ConfidenceFrom(results, similarityVariance) ==
    ConfidenceOf(FMin(FMul(results[1].similarity, Two), One),
                 FMax(FZero, FSub(One, FMul(similarityVariance, FromInt(10)))),
                 FMin(FDiv(FromInt(Len(results)), FromInt(10)), One))

ConfidenceFromAverage(results, avgSimilarity) ==
    CHOOSE c \in { ConfidenceFrom(results, variance) :
                       variance \in {SimilarityVariance(results, avgSimilarity)} } : TRUE

\* a confidence that is not 0 for the empty list
ConfidenceHalfWhenEmpty(results) ==
    IF Len(results) = 0 THEN Half
    ELSE CHOOSE c \in { ConfidenceFromAverage(results, avgSimilarity) :
                            avgSimilarity \in {FDiv(SimilaritySum(results, 1, FZero),
                                                    FromInt(Len(results)))} } : TRUE

calculateSearchConfidence(results) ==
    IF Len(results) = 0 THEN FZero
    ELSE CHOOSE c \in { ConfidenceFromAverage(results, avgSimilarity) :
                            avgSimilarity \in {FDiv(SimilaritySum(results, 1, FZero),
                                                    FromInt(Len(results)))} } : TRUE

(***************************************************************************)
(* State.  sim*: one caller of calculateAdvancedSimilarity, which scores   *)
(* a pair of inputs in both orders.  rankPc to ranked: the arguments, the  *)
(* local similarities and the return value of one call of                  *)
(* findAdvancedSimilarProducts.  exPc to stored: one extraction, from its  *)
(* entry point to the vector its caller keeps, and analysisQuality, the    *)
(* object of that name in the upload route.  searchPc to confidence: the   *)
(* locals of one search of the upload route.  bucketPrice, ranges: one     *)
(* price and the range each implementation gives it.  texturePc to         *)
(* textureFeatures: the locals of extractTextureFeatures.  uploadStatus,   *)
(* selectedFile, isLoading, imageUrl: the state of the upload component;   *)
(* timers, validations, uploads: its pending timer callbacks and requests; *)
(* sent: the bodies of the upload requests it has sent.                    *)
(***************************************************************************)
VARIABLES simPc, simA, simB, simAB, simBA,
          rankPc, uploadedFeatures, products, limit, categoryBoost,
          similarities, ranked,
          exPc, entry, imageBuffer, randoms, extracted, failed, advanced,
          urlResult, stored,
          searchPc, imageFeatures, allProducts, globalResults, categoryResults,
          priceResults, combinedResults, topResults, confidence,
          bucketPrice, ranges,
          texturePc, grayBuffer, lbpHistogram, textureFeatures,
          analysisQuality,
          uploadStatus, selectedFile, isLoading, imageUrl, timers, validations,
          uploads, sent

simVars == <<simPc, simA, simB, simAB, simBA>>
rankArgs == <<uploadedFeatures, products, limit, categoryBoost>>
rankVars == <<rankPc, rankArgs, similarities, ranked>>
exVars == <<exPc, entry, imageBuffer, randoms, extracted, failed, advanced, urlResult, stored>>
searchArgs == <<imageFeatures, allProducts>>
searchVars == <<searchPc, searchArgs, globalResults, categoryResults, priceResults,
                combinedResults, topResults, confidence>>
bucketVars == <<bucketPrice, ranges>>
textureVars == <<texturePc, grayBuffer, lbpHistogram, textureFeatures>>
qualityVars == <<analysisQuality>>
uiVars == <<uploadStatus, selectedFile, isLoading, imageUrl, timers, validations, uploads, sent>>
vars == <<simVars, rankVars, exVars, searchVars, bucketVars, textureVars, qualityVars, uiVars>>

\* the longest input vector
MaxLen == 2

Elems == {FromInt(0), FromInt(1), FromInt(2)}

VectorsOfLen(n) == [1..n -> Elems]

SimInputs == {Absent} \cup {Arr(v) : v \in UNION {VectorsOfLen(n) : n \in 0..MaxLen}}

SimIdle ==
    /\ simPc = "idle"
    /\ simA = Absent
    /\ simB = Absent
    /\ simAB = FZero
    /\ simBA = FZero

RankIdle ==
    /\ rankPc = "idle"
    /\ uploadedFeatures = Absent
    /\ products = <<>>
    /\ limit = 0
    /\ categoryBoost = FZero
    /\ similarities = <<>>
    /\ ranked = <<>>

Black == Colour(0, 0, 0, 0)
White == Colour(255, 255, 255, 255)
Red == Colour(200, 30, 30, 66)

Image(decodable, kind, left, right) ==
    [decodable |-> decodable, kind |-> kind, left |-> left, right |-> right]

\* a file that is no image, and three images
Images ==
    { Image(FALSE, "solid", Black, Black),
      Image(TRUE, "solid", Black, Black),
      Image(TRUE, "solid", Red, Red),
      Image(TRUE, "split", White, Black) }

Entries == {"uploadFile", "uploadUrl", "seed"}

\* the picks of Math.random for a buffer of n pixels: one pixel five
\* times, or the pixels in turn
Draws(n) == { [i \in 1..K |-> 1 + ((b * (i - 1)) % n)] : b \in {0, 1} }

NoFeatures == [t \in {featureOrder[i] : i \in 1..Len(featureOrder)} |-> <<>>]

ExtractIdle ==
    /\ exPc = "idle"
    /\ entry = "none"
    /\ imageBuffer = Image(FALSE, "solid", Black, Black)
    /\ randoms = <<>>
    /\ extracted = NoFeatures
    /\ failed = {}
    /\ advanced = NoValue
    /\ urlResult = NoValue
    /\ stored = NoValue

\* the names of the implementations of the price bucketing
Implementations == {"imageProcessor", "seeder", "routes", "preSave"}

SearchIdle ==
    /\ searchPc = "idle"
    /\ imageFeatures = Absent
    /\ allProducts = <<>>
    /\ globalResults = <<>>
    /\ categoryResults = <<>>
    /\ priceResults = <<>>
    /\ combinedResults = <<>>
    /\ topResults = <<>>
    /\ confidence = FZero

BucketIdle ==
    /\ bucketPrice = FZero
    /\ ranges = [i \in Implementations |-> "none"]

TextureIdle ==
    /\ texturePc = "idle"
    /\ grayBuffer = <<>>
    /\ lbpHistogram = <<>>
    /\ textureFeatures = <<>>

QualityIdle ==
    analysisQuality = [success |-> TRUE, score |-> One]

\* useState(null) for selectedFile: no file, no url property
NoFile == [type |-> Null, url |-> <<>>]

\* the upload component as useState initializes it
UploadIdle ==
    /\ uploadStatus = ""
    /\ selectedFile = NoFile
    /\ isLoading = FALSE
    /\ imageUrl = <<>>
    /\ timers = 0
    /\ validations = <<>>
    /\ uploads = <<>>
    /\ sent = {}

InitSim ==
    /\ simPc = "call"
    /\ simA \in SimInputs
    /\ simB \in SimInputs
    /\ simAB = FZero
    /\ simBA = FZero
    /\ RankIdle
    /\ ExtractIdle
    /\ SearchIdle
    /\ BucketIdle
    /\ TextureIdle
    /\ QualityIdle
    /\ UploadIdle

\* similarity = calculateAdvancedSimilarity(a, b)
CallSimilarity ==
    /\ simPc = "call"
    /\ simAB' = calculateAdvancedSimilarity(simA, simB)
    /\ simPc' = "swapped"
    /\ UNCHANGED <<simA, simB, simBA, rankVars, exVars, searchVars, bucketVars, textureVars,
                   qualityVars, uiVars>>

\* similarity = calculateAdvancedSimilarity(b, a)
CallSwapped ==
    /\ simPc = "swapped"
    /\ simBA' = calculateAdvancedSimilarity(simB, simA)
    /\ simPc' = "done"
    /\ UNCHANGED <<simA, simB, simAB, rankVars, exVars, searchVars, bucketVars, textureVars,
                   qualityVars, uiVars>>

NextSim == CallSimilarity \/ CallSwapped

SpecSim == InitSim /\ [][NextSim]_vars

(***************************************************************************)
(* One call of findAdvancedSimilarProducts over a list of products drawn   *)
(* from a small catalogue.                                                 *)
(***************************************************************************)
\* the most products in a call
MaxProducts == 3

Vec3(a, b, c) == <<Dec(a, 10), Dec(b, 10), Dec(c, 10)>>

Product(id, category, price, v) ==
    [id |-> id, category |-> category, price |-> FromInt(price), colorFeatures |-> Arr(v)]

\* stored products: a dark image, a near copy of it under a lower-case
\* category, a bright high-contrast image, a fingerprint of another length
\* given away for nothing, and a second near copy at a higher price
Catalogue ==
    << Product(1, "Fashion", 400, Vec3(2, 5, 1)),
       Product(2, "fashion", 150, Vec3(2, 5, 2)),
       Product(3, "Tools", 100, Vec3(9, 1, 9)),
       Product(4, "Electronics", 0, <<Dec(2, 10), Dec(5, 10)>>),
       Product(5, "Fashion", 150, Vec3(2, 4, 1)) >>

\* the lists of up to MaxProducts distinct products of the catalogue
ListsOfLen(n) ==
    { [i \in 1..n |-> Catalogue[ids[i]]] :
          ids \in { f \in [1..n -> 1..Len(Catalogue)] :
                        \A i, j \in 1..n : i # j => f[i] # f[j] } }

ProductLists == UNION { ListsOfLen(n) : n \in 0..MaxProducts }

\* query fingerprints: none, one read as Fashion, one with no category
Queries == {Absent, Arr(Vec3(2, 5, 1)), Arr(Vec3(5, 5, 5))}

\* a limit of none, one that truncates and one that does not
Limits == {0, 1, MaxProducts}

Boosts == {FZero, Dec(1, 10)}

InitRank ==
    /\ rankPc = "call"
    /\ uploadedFeatures \in Queries
    /\ products \in ProductLists
    /\ limit \in Limits
    /\ categoryBoost \in Boosts
    /\ similarities = <<>>
    /\ ranked = <<>>
    /\ SimIdle
    /\ ExtractIdle
    /\ SearchIdle
    /\ BucketIdle
    /\ TextureIdle
    /\ QualityIdle
    /\ UploadIdle

\* results = findAdvancedSimilarProducts(uploadedFeatures, products, limit, categoryBoost)
FindAdvancedSimilarProducts ==
    /\ rankPc = "call"
    /\ \E scored \in {ScoreAll(uploadedFeatures, products, categoryBoost)} :
           \E p \in SortOrders(scored) :
               /\ similarities' = scored
               /\ ranked' = SliceAndFilter(scored, p, limit)
    /\ rankPc' = "done"
    /\ UNCHANGED <<rankArgs, simVars, exVars, searchVars, bucketVars, textureVars, qualityVars,
                   uiVars>>

NextRank == FindAdvancedSimilarProducts

SpecRank == InitRank /\ [][NextRank]_vars

\* a catalogue with scores on both sides of the floor: a fingerprint of
\* another length (score 0 before the boost), two of a black image, one close
\* to the query
FloorCatalogue ==
    << Product(1, "Tools", 100, <<Dec(2, 10), Dec(5, 10)>>),
       Product(2, "Electronics", 120, Vec3(0, 0, 0)),
       Product(3, "Tools", 100, Vec3(9, 1, 9)),
       Product(4, "Fashion", 150, Vec3(0, 0, 0)) >>

\* the lists of n distinct products of the floor catalogue
FloorListsOfLen(n) ==
    { [i \in 1..n |-> FloorCatalogue[f[i]]] :
          f \in { g \in [1..n -> 1..Len(FloorCatalogue)] :
                      \A i, j \in 1..n : i # j => g[i] # g[j] } }

FloorLists == UNION { FloorListsOfLen(n) : n \in 0..MaxProducts }

\* query fingerprints: one read as Tools and far from black, one read as Fashion
FloorQueries == {Arr(Vec3(10, 10, 10)), Arr(Vec3(2, 5, 1))}

InitFloor ==
    /\ rankPc = "call"
    /\ uploadedFeatures \in FloorQueries
    /\ products \in FloorLists
    /\ limit \in Limits
    /\ categoryBoost \in Boosts
    /\ similarities = <<>>
    /\ ranked = <<>>
    /\ SimIdle
    /\ ExtractIdle
    /\ SearchIdle
    /\ BucketIdle
    /\ TextureIdle
    /\ QualityIdle
    /\ UploadIdle

SpecFloor == InitFloor /\ [][NextRank]_vars

(***************************************************************************)
(* One extraction: a file upload, a URL upload or the seeding of one       *)
(* product.  extractAdvancedFeatures awaits its seven extractors in turn.  *)
(***************************************************************************)
InitExtract ==
    /\ entry \in Entries
    /\ exPc = IF entry = "uploadFile" THEN "canonical" ELSE "download"
    /\ imageBuffer \in Images
    /\ randoms = <<>>
    /\ extracted = NoFeatures
    /\ failed = {}
    /\ advanced = NoValue
    /\ urlResult = NoValue
    /\ stored = NoValue
    /\ SimIdle
    /\ RankIdle
    /\ SearchIdle
    /\ BucketIdle
    /\ TextureIdle
    /\ QualityIdle
    /\ UploadIdle

\* extractFeaturesFromUrl: the download succeeds, or it throws and the
\* catch block returns the default vector
Download ==
    /\ exPc = "download"
    /\ \E ok \in BOOLEAN :
           IF ok THEN exPc' = "canonical" /\ UNCHANGED urlResult
           ELSE exPc' = "urlReturned" /\ urlResult' = UrlOutcome(Thrown)
    /\ UNCHANGED <<entry, imageBuffer, randoms, extracted, failed, advanced, stored, simVars, rankVars, searchVars, bucketVars,
                   textureVars, qualityVars, uiVars>>

\* extractAdvancedFeatures: sharp(imageBuffer).resize(224, 224).raw().toBuffer()
\* throws for what it cannot decode, and the catch block rethrows
Canonicalize ==
    /\ exPc = "canonical"
    /\ IF imageBuffer.decodable THEN exPc' = "colorHistogram" /\ UNCHANGED advanced
       ELSE exPc' = "finished" /\ advanced' = Thrown
    /\ UNCHANGED <<entry, imageBuffer, randoms, extracted, failed, urlResult, stored, simVars, rankVars, searchVars, bucketVars,
                   textureVars, qualityVars, uiVars>>

\* a failure that takes the earlier extractors' vectors with it
ExtractedAlone(featureType, next, threw, vector) ==
    /\ exPc = featureType
    /\ exPc' = next
    /\ extracted' = [(IF threw THEN NoFeatures ELSE extracted) EXCEPT ![featureType] = vector]
    /\ failed' = IF threw THEN failed \cup {featureType} ELSE failed
    /\ UNCHANGED <<entry, imageBuffer, advanced, urlResult, stored, simVars, rankVars, searchVars, bucketVars,
                   textureVars, qualityVars, uiVars>>

\* one awaited extractor has written its key of the features object
Extracted(featureType, next, threw, vector) ==
    /\ exPc = featureType
    /\ exPc' = next
    /\ extracted' = [extracted EXCEPT ![featureType] = vector]
    /\ failed' = IF threw THEN failed \cup {featureType} ELSE failed
    /\ UNCHANGED <<entry, imageBuffer, advanced, urlResult, stored, simVars, rankVars, searchVars, bucketVars,
                   textureVars, qualityVars, uiVars>>

ExtractColorHistogram ==
    \E threw \in BOOLEAN :
        /\ Extracted("colorHistogram", "edgeFeatures", threw,
                     extractColorHistogram(imageBuffer, threw))
        /\ UNCHANGED randoms

ExtractEdgeFeatures ==
    \E threw \in BOOLEAN :
        /\ Extracted("edgeFeatures", "textureFeatures", threw,
                     extractEdgeFeatures(imageBuffer, threw))
        /\ UNCHANGED randoms

ExtractTextureFeatures ==
    \E threw \in BOOLEAN :
        /\ Extracted("textureFeatures", "shapeFeatures", threw,
                     extractTextureFeatures(imageBuffer, threw))
        /\ UNCHANGED randoms

ExtractShapeFeatures ==
    \E threw \in BOOLEAN :
        /\ Extracted("shapeFeatures", "dominantColors", threw,
                     extractShapeFeatures(imageBuffer, threw))
        /\ UNCHANGED randoms

ExtractDominantColors ==
    \/ /\ Extracted("dominantColors", "brightness", TRUE,
                    extractDominantColors(imageBuffer, <<>>, TRUE))
       /\ UNCHANGED randoms
    \/ \E picks \in Draws(ColorSide * ColorSide) :
           /\ Extracted("dominantColors", "brightness", FALSE,
                        extractDominantColors(imageBuffer, picks, FALSE))
           /\ randoms' = picks

ExtractBrightnessFeatures ==
    \E threw \in BOOLEAN :
        /\ Extracted("brightness", "contrast", threw,
                     extractBrightnessFeatures(imageBuffer, threw))
        /\ UNCHANGED randoms

ExtractContrastFeatures ==
    \E threw \in BOOLEAN :
        /\ Extracted("contrast", "combine", threw,
                     extractContrastFeatures(imageBuffer, threw))
        /\ UNCHANGED randoms

\* return combineFeatures(features)
Combine ==
    /\ exPc = "combine"
    /\ exPc' = "finished"
    /\ advanced' = Returned(combineFeatures(extracted))
    /\ UNCHANGED <<entry, imageBuffer, randoms, extracted, failed, urlResult, stored, simVars, rankVars, searchVars, bucketVars,
                   textureVars, qualityVars, uiVars>>

\* POST /upload with a file: imageFeatures is the vector or the fallback
UploadFileDone ==
    /\ exPc = "finished"
    /\ entry = "uploadFile"
    /\ exPc' = "done"
    /\ stored' = UploadFileFeatures(advanced)
    /\ analysisQuality' = UploadFileQuality(advanced, analysisQuality)
    /\ UNCHANGED <<entry, imageBuffer, randoms, extracted, failed, advanced, urlResult,
                   simVars, rankVars, searchVars, bucketVars, textureVars, uiVars>>

\* extractFeaturesFromUrl returns the vector, or its catch block the default
UrlReturn ==
    /\ exPc = "finished"
    /\ entry # "uploadFile"
    /\ exPc' = "urlReturned"
    /\ urlResult' = UrlOutcome(advanced)
    /\ UNCHANGED <<entry, imageBuffer, randoms, extracted, failed, advanced, stored, simVars, rankVars, searchVars, bucketVars,
                   textureVars, qualityVars, uiVars>>

\* POST /upload with a URL: imageFeatures is what extractFeaturesFromUrl gave
UploadUrlDone ==
    /\ exPc = "urlReturned"
    /\ entry = "uploadUrl"
    /\ exPc' = "done"
    /\ stored' = UploadUrlFeatures(urlResult)
    /\ analysisQuality' = UploadUrlQuality(urlResult, analysisQuality)
    /\ UNCHANGED <<entry, imageBuffer, randoms, extracted, failed, advanced, urlResult,
                   simVars, rankVars, searchVars, bucketVars, textureVars, uiVars>>

\* enhancedSeedDatabase: the product's colorFeatures
SeedDone ==
    /\ exPc = "urlReturned"
    /\ entry = "seed"
    /\ exPc' = "done"
    /\ stored' = SeedFeatures(urlResult)
    /\ UNCHANGED <<entry, imageBuffer, randoms, extracted, failed, advanced, urlResult, simVars, rankVars, searchVars, bucketVars,
                   textureVars, qualityVars, uiVars>>

NextExtract ==
    \/ Download
    \/ Canonicalize
    \/ ExtractColorHistogram
    \/ ExtractEdgeFeatures
    \/ ExtractTextureFeatures
    \/ ExtractShapeFeatures
    \/ ExtractDominantColors
    \/ ExtractBrightnessFeatures
    \/ ExtractContrastFeatures
    \/ Combine
    \/ UploadFileDone
    \/ UrlReturn
    \/ UploadUrlDone
    \/ SeedDone

SpecExtract == InitExtract /\ [][NextExtract]_vars

(***************************************************************************)
(* One search as POST /upload runs it: the three strategies over the       *)
(* products found, the merge of their results, the cut to the final size   *)
(* and the confidence.  The candidate lists include the empty one.         *)
(***************************************************************************)
\* the most products found
MaxSearchProducts == 3

\* three products of one category, near copies of each other, a bright
\* one of another category, a cheap one with an all-zero fingerprint alone
\* in its category, and a dear one
SearchCatalogue ==
    << Product(1, "Fashion", 400, Vec3(2, 5, 1)),
       Product(2, "Fashion", 150, Vec3(2, 5, 2)),
       Product(3, "Fashion", 150, Vec3(2, 4, 1)),
       Product(4, "Tools", 100, Vec3(9, 1, 9)),
       Product(5, "Electronics", 10, Vec3(0, 0, 0)),
       Product(6, "Tools", 900, Vec3(1, 9, 1)) >>

\* the members of a set of numbers in increasing order
RECURSIVE Ascending(_)
Ascending(S) ==
    IF S = {} THEN <<>>
    ELSE <<CHOOSE x \in S : \A y \in S : x <= y>>
             \o Ascending(S \ {CHOOSE x \in S : \A y \in S : x <= y})

Found(ids) == SubSeq([i \in 1..Len(ids) |-> SearchCatalogue[ids[i]]], 1, Len(ids))

\* Product.find({}): up to MaxSearchProducts products in stored order, or
\* the whole catalogue
SearchLists ==
    { Found(Ascending(S)) :
          S \in { T \in SUBSET (1..Len(SearchCatalogue)) :
                      Cardinality(T) <= MaxSearchProducts } }
        \cup {SearchCatalogue}

\* no fingerprint, a bright one read as Tools, and product 1's own
SearchQueries == {Absent, Arr(Vec3(10, 10, 10)), Arr(Vec3(2, 5, 1))}

InitSearch ==
    /\ searchPc = "global"
    /\ imageFeatures \in SearchQueries
    /\ allProducts \in SearchLists
    /\ globalResults = <<>>
    /\ categoryResults = <<>>
    /\ priceResults = <<>>
    /\ combinedResults = <<>>
    /\ topResults = <<>>
    /\ confidence = FZero
    /\ SimIdle
    /\ RankIdle
    /\ ExtractIdle
    /\ BucketIdle
    /\ TextureIdle
    /\ QualityIdle
    /\ UploadIdle

\* products: findAdvancedSimilarProducts(imageFeatures, allProducts, 8)
SearchGlobal ==
    /\ searchPc = "global"
    /\ globalResults' \in RankResults(imageFeatures, allProducts, GlobalLimit,
                                      DefaultCategoryBoost)
    /\ searchPc' = "category"
    /\ UNCHANGED <<searchArgs, categoryResults, priceResults, combinedResults,
                   topResults, confidence, simVars, rankVars, exVars, bucketVars,
                   textureVars, qualityVars, uiVars>>

\* products: findCategoryAwareSimilarProducts(imageFeatures, allProducts, 6)
SearchCategoryAware ==
    /\ searchPc = "category"
    /\ categoryResults' \in findCategoryAwareSimilarProducts(imageFeatures, allProducts,
                                                             CategoryLimit)
    /\ searchPc' = "price"
    /\ UNCHANGED <<searchArgs, globalResults, priceResults, combinedResults,
                   topResults, confidence, simVars, rankVars, exVars, bucketVars,
                   textureVars, qualityVars, uiVars>>

\* products: findPriceAwareSimilarProducts(imageFeatures, allProducts, 4)
SearchPriceAware ==
    /\ searchPc = "price"
    /\ priceResults' \in findPriceAwareSimilarProducts(imageFeatures, allProducts,
                                                       PriceLimit)
    /\ searchPc' = "combine"
    /\ UNCHANGED <<searchArgs, globalResults, categoryResults, combinedResults,
                   topResults, confidence, simVars, rankVars, exVars, bucketVars,
                   textureVars, qualityVars, uiVars>>

SearchStrategies ==
    << Strategy("AI Visual Similarity", globalResults),
       Strategy("Category-Enhanced", categoryResults),
       Strategy("Price-Range Similar", priceResults) >>

\* combinedResults = combineSearchResults(searchStrategies);
\* topResults = combinedResults.slice(0, 12)
CombineSearchResults ==
    /\ searchPc = "combine"
    /\ \E combined \in {combineSearchResults(SearchStrategies)} :
           /\ combinedResults' = combined
           /\ topResults' = Slice(combined, FinalResultSize)
    /\ searchPc' = "confidence"
    /\ UNCHANGED <<searchArgs, globalResults, categoryResults, priceResults,
                   confidence, simVars, rankVars, exVars, bucketVars, textureVars,
                   qualityVars, uiVars>>

\* confidence: calculateSearchConfidence(topResults)
CalculateSearchConfidence ==
    /\ searchPc = "confidence"
    /\ confidence' = calculateSearchConfidence(topResults)
    /\ searchPc' = "done"
    /\ UNCHANGED <<searchArgs, globalResults, categoryResults, priceResults,
                   combinedResults, topResults, simVars, rankVars, exVars, bucketVars,
                   textureVars, qualityVars, uiVars>>

NextSearch ==
    \/ SearchGlobal
    \/ SearchCategoryAware
    \/ SearchPriceAware
    \/ CombineSearchResults
    \/ CalculateSearchConfidence

SpecSearch == InitSearch /\ [][NextSearch]_vars

(***************************************************************************)
(* The price bucketing applied to one price by each implementation.        *)
(***************************************************************************)
\* prices run to MaxPriceSteps steps of PriceStep cents
MaxPriceSteps == 17
PriceStep == 2500

\* a cent either side of each boundary, and the steps
Cents ==
    {0, 1, 2999, 3000, 3001, 9999, 10000, 10001, 29999, 30000, 30001}
        \cup { PriceStep * n : n \in 0..MaxPriceSteps }

Prices == { Dec(c, 100) : c \in Cents }

InitBucket ==
    /\ bucketPrice \in Prices
    /\ ranges = [i \in Implementations |-> "none"]
    /\ SimIdle
    /\ RankIdle
    /\ ExtractIdle
    /\ SearchIdle
    /\ TextureIdle
    /\ QualityIdle
    /\ UploadIdle

Bucketed(implementation, range) ==
    /\ ranges[implementation] = "none"
    /\ ranges' = [ranges EXCEPT ![implementation] = range]
    /\ UNCHANGED <<bucketPrice, simVars, rankVars, exVars, searchVars, textureVars, qualityVars,
                   uiVars>>

BucketImageProcessor == Bucketed("imageProcessor", getPriceRange(bucketPrice))

BucketSeeder == Bucketed("seeder", getPriceRangeSeeder(bucketPrice))

BucketRoutes == Bucketed("routes", getPriceRangeRoutes(bucketPrice))

BucketPreSave == Bucketed("preSave", preSavePriceRange(bucketPrice))

NextBucket == BucketImageProcessor \/ BucketSeeder \/ BucketRoutes \/ BucketPreSave

SpecBucket == InitBucket /\ [][NextBucket]_vars

(***************************************************************************)
(* calculateSearchConfidence applied to lists sorted as the merge leaves   *)
(* them: n entries, the first m of one score and the rest of a lower one.  *)
(***************************************************************************)
\* the longest list
MaxResults == 11

Scores == {FZero, Dec(15, 100), Dec(5, 10), Dec(6, 10), One}

Result(i, similarity) == [id |-> i, similarity |-> similarity]

ResultList(n, m, high, low) ==
    SubSeq([i \in 1..n |-> Result(i, IF i <= m THEN high ELSE low)], 1, n)

ResultLists ==
    { ResultList(n, m, pair[1], pair[2]) :
          n \in 0..MaxResults, m \in 1..2,
          pair \in { p \in Scores \X Scores : FGe(p[1], p[2]) } }

InitConfidence ==
    /\ searchPc = "confidence"
    /\ imageFeatures = Absent
    /\ allProducts = <<>>
    /\ globalResults = <<>>
    /\ categoryResults = <<>>
    /\ priceResults = <<>>
    /\ combinedResults = <<>>
    /\ topResults \in ResultLists
    /\ confidence = FZero
    /\ SimIdle
    /\ RankIdle
    /\ ExtractIdle
    /\ BucketIdle
    /\ TextureIdle
    /\ QualityIdle
    /\ UploadIdle

NextConfidence == CalculateSearchConfidence

SpecConfidence == InitConfidence /\ [][NextConfidence]_vars

(***************************************************************************)
(* Two extractions of one image, each with its own picks of Math.random,   *)
(* and the similarity of the two fingerprints.                             *)
(***************************************************************************)
\* the side of the raster the dominant colours are taken from (32 in the
\* source)
DominantSide == 2

Solid(colour) == Image(TRUE, "solid", colour, colour)

\* eight images of one colour and two of two colours
TwiceImages ==
    { Solid(Black), Solid(White), Solid(Red),
      Solid(Colour(255, 0, 0, 54)), Solid(Colour(30, 152, 64, 120)),
      Solid(Colour(0, 0, 255, 18)), Solid(Colour(255, 255, 0, 237)),
      Solid(Colour(116, 6, 102, 36)),
      Image(TRUE, "split", White, Black), Image(TRUE, "split", Red, Black) }

\* the features object of an extraction in which no extractor throws
FeaturesOf(image, picks) ==
    [ t \in DOMAIN NoFeatures |->
        CASE t = "colorHistogram" -> extractColorHistogram(image, FALSE)
          [] t = "edgeFeatures" -> extractEdgeFeatures(image, FALSE)
          [] t = "textureFeatures" -> extractTextureFeatures(image, FALSE)
          [] t = "shapeFeatures" -> extractShapeFeatures(image, FALSE)
          [] t = "dominantColors" ->
                 DominantColorsOf(SharpRaw(image, DominantSide), picks)
          [] t = "brightness" -> extractBrightnessFeatures(image, FALSE)
          [] t = "contrast" -> extractContrastFeatures(image, FALSE) ]

\* what extractAdvancedFeatures returns for the image and the picks
extractAdvancedFeatures(image, picks) == combineFeatures(FeaturesOf(image, picks))

InitTwice ==
    /\ exPc = "first"
    /\ entry = "seed"
    /\ imageBuffer \in TwiceImages
    /\ randoms = <<>>
    /\ extracted = NoFeatures
    /\ failed = {}
    /\ advanced = NoValue
    /\ urlResult = NoValue
    /\ stored = NoValue
    /\ SimIdle
    /\ RankIdle
    /\ SearchIdle
    /\ BucketIdle
    /\ TextureIdle
    /\ QualityIdle
    /\ UploadIdle

\* the image is fingerprinted when the product is seeded
ExtractOnce ==
    /\ exPc = "first"
    /\ \E picks \in Draws(DominantSide * DominantSide) :
           /\ randoms' = picks
           /\ simA' = Arr(extractAdvancedFeatures(imageBuffer, picks))
    /\ exPc' = "second"
    /\ UNCHANGED <<entry, imageBuffer, extracted, failed, advanced, urlResult, stored,
                   simPc, simB, simAB, simBA, rankVars, searchVars, bucketVars,
                   textureVars, qualityVars, uiVars>>

\* the same image is fingerprinted again when it is uploaded
ExtractAgain ==
    /\ exPc = "second"
    /\ \E picks \in Draws(DominantSide * DominantSide) :
           /\ randoms' = randoms \o picks
           /\ simB' = Arr(extractAdvancedFeatures(imageBuffer, picks))
    /\ exPc' = "compare"
    /\ UNCHANGED <<entry, imageBuffer, extracted, failed, advanced, urlResult, stored,
                   simPc, simA, simAB, simBA, rankVars, searchVars, bucketVars,
                   textureVars, qualityVars, uiVars>>

\* baseSimilarity = calculateAdvancedSimilarity(uploadedFeatures, product.colorFeatures)
CompareExtractions ==
    /\ exPc = "compare"
    /\ simAB' = calculateAdvancedSimilarity(simB, simA)
    /\ exPc' = "compared"
    /\ UNCHANGED <<entry, imageBuffer, randoms, extracted, failed, advanced, urlResult,
                   stored, simPc, simA, simB, simBA, rankVars, searchVars, bucketVars,
                   textureVars, qualityVars, uiVars>>

NextTwice == ExtractOnce \/ ExtractAgain \/ CompareExtractions

SpecTwice == InitTwice /\ [][NextTwice]_vars

(***************************************************************************)
(* extractTextureFeatures over grayscale buffers of several patterns.      *)
(***************************************************************************)
\* the side of the grayscale raster of the texture extractor (64 in the
\* source)
TextureSide == 4

GrayLevels == <<0, 85, 170, 255>>

\* the raster whose pixel (x, y) has the level a*x + b*y + c*x*y + d (mod 4)
GrayPattern(a, b, c, d, side) ==
    SubSeq([i \in 1..side * side |->
               GrayLevels[((a * ((i - 1) % side) + b * ((i - 1) \div side)
                            + c * ((i - 1) % side) * ((i - 1) \div side) + d) % 4) + 1]],
           1, side * side)

GrayBuffers ==
    { GrayPattern(a, b, c, d, TextureSide) : a \in 0..3, b \in 0..3, c \in 0..2, d \in 0..1 }

InitTexture ==
    /\ texturePc = "call"
    /\ grayBuffer \in GrayBuffers
    /\ lbpHistogram = <<>>
    /\ textureFeatures = <<>>
    /\ SimIdle
    /\ RankIdle
    /\ ExtractIdle
    /\ SearchIdle
    /\ BucketIdle
    /\ QualityIdle
    /\ UploadIdle

\* the LBP loops of extractTextureFeatures
TextureCount ==
    /\ texturePc = "call"
    /\ lbpHistogram' = LbpCounts(grayBuffer, TextureSide)
    /\ texturePc' = "normalize"
    /\ UNCHANGED <<grayBuffer, textureFeatures, simVars, rankVars, exVars, searchVars,
                   bucketVars, qualityVars, uiVars>>

\* return lbpHistogram.map(count => count / total)
TextureNormalize ==
    /\ texturePc = "normalize"
    /\ textureFeatures' = Normalize(lbpHistogram, FromInt(InteriorCount(TextureSide)))
    /\ texturePc' = "done"
    /\ UNCHANGED <<grayBuffer, lbpHistogram, simVars, rankVars, exVars, searchVars,
                   bucketVars, qualityVars, uiVars>>

NextTexture == TextureCount \/ TextureNormalize

SpecTexture == InitTexture /\ [][NextTexture]_vars

(***************************************************************************)
(* The upload component.  A text is the sequence of its characters.  The   *)
(* state is what useState holds (the drag highlight, the preview and the   *)
(* results shown are left out: no handler reads them to decide anything    *)
(* about a request), the setTimeout callbacks that have not run, the HEAD  *)
(* requests and POST requests that have not settled, and the bodies of the *)
(* POST requests sent so far.                                              *)
(***************************************************************************)
\* setTimeout callbacks pending at once
MaxTimers == 2

\* requests of one kind in flight at once
MaxInFlight == 2

Blank == " "

\* what the URL field can hold: nothing, white space, a URL, a URL after a space
UrlTexts == {<<>>, <<Blank>>, <<"u">>, <<Blank, "u">>}

RECURSIVE TrimStart(_)
TrimStart(text) ==
    IF text # <<>> /\ Head(text) = Blank THEN TrimStart(Tail(text)) ELSE text

RECURSIVE TrimEnd(_)
TrimEnd(text) ==
    IF text # <<>> /\ text[Len(text)] = Blank
    THEN TrimEnd(SubSeq(text, 1, Len(text) - 1))
    ELSE text

\* String.prototype.trim
Trim(text) == TrimEnd(TrimStart(text))

\* a File of the file input or of a drop: it has a type and no url property
File(type) == [type |-> type, url |-> <<>>]

FileTypes == {"image/png", "text/plain"}

\* file.type.startsWith('image/')
IsImageType(type) == type = "image/png"

\* the mock file object of handleUrlSubmit
MockFile(url) == [type |-> "image/png", url |-> url]

\* the FormData of handleSubmit
FormData(file, url) ==
    IF file # NoFile /\ file.url = <<>>
    THEN [field |-> "image", value |-> <<"file">>]
    ELSE [field |-> "imageUrl", value |-> Trim(url)]

\* s without its element i
Without(s, i) == SubSeq(s, 1, i - 1) \o SubSeq(s, i + 1, Len(s))

InitUpload ==
    /\ UploadIdle
    /\ SimIdle
    /\ RankIdle
    /\ ExtractIdle
    /\ SearchIdle
    /\ BucketIdle
    /\ TextureIdle
    /\ QualityIdle

uiOthers == <<simVars, rankVars, exVars, searchVars, bucketVars, textureVars, qualityVars>>

\* handleFileSelect(file)
HandleFileSelect(file) ==
    IF ~IsImageType(file.type)
    THEN /\ timers < MaxTimers
         /\ uploadStatus' = "error"
         /\ timers' = timers + 1
         /\ UNCHANGED selectedFile
    ELSE /\ selectedFile' = file
         /\ uploadStatus' = "success"
         /\ UNCHANGED timers

\* handleFileChange: the file input, disabled while isLoading
FileChange ==
    /\ ~isLoading
    /\ \E type \in FileTypes : HandleFileSelect(File(type))
    /\ UNCHANGED <<isLoading, imageUrl, validations, uploads, sent, uiOthers>>

\* handleDrop: the drop zone is never disabled
FileDrop ==
    /\ \E type \in FileTypes : HandleFileSelect(File(type))
    /\ UNCHANGED <<isLoading, imageUrl, validations, uploads, sent, uiOthers>>

\* handleRemoveFile: the button is rendered while there is a file and no error
RemoveFile ==
    /\ selectedFile # NoFile
    /\ uploadStatus \in {"success", ""}
    /\ selectedFile' = NoFile
    /\ uploadStatus' = ""
    /\ isLoading' = FALSE
    /\ imageUrl' = <<>>
    /\ UNCHANGED <<timers, validations, uploads, sent, uiOthers>>

\* handleUrlChange: the URL field, disabled while isLoading
UrlChange ==
    /\ ~isLoading
    /\ \E text \in UrlTexts : imageUrl' = text
    /\ UNCHANGED <<uploadStatus, selectedFile, isLoading, timers, validations,
                   uploads, sent, uiOthers>>

\* handleUrlSubmit up to the await: Enter in the URL field
UrlSubmit ==
    /\ ~isLoading
    /\ Trim(imageUrl) # <<>>
    /\ Len(validations) < MaxInFlight
    /\ isLoading' = TRUE
    /\ uploadStatus' = ""
    /\ validations' = Append(validations, imageUrl)
    /\ UNCHANGED <<selectedFile, imageUrl, timers, uploads, sent, uiOthers>>

\* handleUrlSubmit after the await: the HEAD request of validation i settles
UrlValidated ==
    \E i \in 1..Len(validations), isImage \in BOOLEAN :
        /\ IF isImage
           THEN /\ selectedFile' = MockFile(validations[i])
                /\ uploadStatus' = "success"
                /\ UNCHANGED timers
           ELSE /\ timers < MaxTimers
                /\ uploadStatus' = "error"
                /\ timers' = timers + 1
                /\ UNCHANGED selectedFile
        /\ isLoading' = FALSE
        /\ validations' = Without(validations, i)
        /\ UNCHANGED <<imageUrl, uploads, sent, uiOthers>>

\* handleSubmit up to the await: the button is disabled while isLoading or
\* while there is neither a file nor a URL
Submit ==
    /\ ~((selectedFile = NoFile /\ Trim(imageUrl) = <<>>) \/ isLoading)
    /\ ~(selectedFile = NoFile /\ Trim(imageUrl) = <<>>)
    /\ Len(uploads) < MaxInFlight
    /\ isLoading' = TRUE
    /\ uploadStatus' = ""
    /\ uploads' = Append(uploads, FormData(selectedFile, imageUrl))
    /\ sent' = sent \cup {FormData(selectedFile, imageUrl)}
    /\ UNCHANGED <<selectedFile, imageUrl, timers, validations, uiOthers>>

\* handleSubmit after the await: the POST request i settles
UploadSettled ==
    \E i \in 1..Len(uploads), ok \in BOOLEAN :
        /\ uploadStatus' = IF ok THEN "success" ELSE "error"
        /\ isLoading' = FALSE
        /\ uploads' = Without(uploads, i)
        /\ UNCHANGED <<selectedFile, imageUrl, timers, validations, sent, uiOthers>>

\* a callback of setTimeout(() => setUploadStatus(''), 3000) runs
TimerFires ==
    /\ timers > 0
    /\ timers' = timers - 1
    /\ uploadStatus' = ""
    /\ UNCHANGED <<selectedFile, isLoading, imageUrl, validations, uploads, sent, uiOthers>>

NextUpload ==
    \/ FileChange
    \/ FileDrop
    \/ RemoveFile
    \/ UrlChange
    \/ UrlSubmit
    \/ UrlValidated
    \/ Submit
    \/ UploadSettled
    \/ TimerFires

SpecUpload == InitUpload /\ [][NextUpload]_vars

(***************************************************************************)
(* Properties of the extraction pipeline, checked under SpecExtract.       *)
(***************************************************************************)
\* the vectors produced so far: by extractAdvancedFeatures, by
\* extractFeaturesFromUrl, and the one the caller keeps
Produced == { o \in {advanced, urlResult, stored} : o.status = "returned" }

\* extractAdvancedFeatures has just returned or thrown
AdvancedFinished == exPc = "finished"

AllTypes == { featureOrder[i] : i \in 1..Len(featureOrder) }

C2_OneLength == \A o \in Produced : Len(o.v) = 1322

\* C2 fails: extractFeaturesFromUrl has returned its default vector, which
\* is not as long as a real fingerprint
C2_DefaultOfOtherLength ==
    /\ advanced.status # "returned"
    /\ urlResult.status = "returned"
    /\ Len(urlResult.v) # 1322

\* the segments of the fingerprint: name, first index from 0, length, weight
Layout ==
    << <<"colorHistogram", 0, 1024, Dec(30, 100)>>,
       <<"edgeFeatures", 1024, 16, Dec(15, 100)>>,
       <<"textureFeatures", 1040, 256, Dec(15, 100)>>,
       <<"shapeFeatures", 1296, 7, Dec(10, 100)>>,
       <<"dominantColors", 1303, 15, Dec(25, 100)>>,
       <<"brightness", 1318, 3, Dec(3, 100)>>,
       <<"contrast", 1321, 1, Dec(2, 100)>> >>

Segment(v, row) == SubSeq(v, row[2] + 1, row[2] + row[3])

\* what the extractor of a type gives for the image when it does not fail
Unfailed(featureType) ==
    CASE featureType = "colorHistogram" -> extractColorHistogram(imageBuffer, FALSE)
      [] featureType = "edgeFeatures" -> extractEdgeFeatures(imageBuffer, FALSE)
      [] featureType = "textureFeatures" -> extractTextureFeatures(imageBuffer, FALSE)
      [] featureType = "shapeFeatures" -> extractShapeFeatures(imageBuffer, FALSE)
      [] featureType = "dominantColors" -> extractDominantColors(imageBuffer, randoms, FALSE)
      [] featureType = "brightness" -> extractBrightnessFeatures(imageBuffer, FALSE)
      [] featureType = "contrast" -> extractContrastFeatures(imageBuffer, FALSE)

ScaledBy(vector, weight) ==
    SubSeq([i \in 1..Len(vector) |-> FMul(vector[i], weight)], 1, Len(vector))

AllZero(vector) == \A i \in 1..Len(vector) : IsZero(vector[i])

OneFailed == AdvancedFinished /\ imageBuffer.decodable /\ Cardinality(failed) = 1

\* C3: when exactly one extractor failed, extractAdvancedFeatures returns;
\* the failed extractor's segment is zeros of its fixed length and every
\* other segment is what it is without the failure
C3_FailureIsolated ==
    OneFailed =>
        /\ advanced.status = "returned"
        /\ Len(advanced.v) = 1322
        /\ \A i \in 1..Len(Layout) :
               IF Layout[i][1] \in failed
               THEN AllZero(Segment(advanced.v, Layout[i]))
               ELSE Segment(advanced.v, Layout[i])
                        = ScaledBy(Unfailed(Layout[i][1]), Layout[i][4])

\* C3 happens: the shape extractor alone failed, on an image for which it
\* gives a vector that is not all zeros
C3_OneNonzeroSegmentLost ==
    /\ OneFailed
    /\ failed = {"shapeFeatures"}
    /\ ~AllZero(Unfailed("shapeFeatures"))

\* C4: when the image cannot be decoded, neither extractAdvancedFeatures
\* nor extractFeaturesFromUrl gives its caller a fingerprint
C4_FailurePropagates ==
    /\ ~imageBuffer.decodable => advanced.status # "returned"
    /\ advanced.status = "thrown" => urlResult.status # "returned"

\* C4 fails: extractAdvancedFeatures threw and extractFeaturesFromUrl
\* returned a vector to its caller
C4_UrlReturnsAfterThrow ==
    /\ ~imageBuffer.decodable
    /\ advanced.status = "thrown"
    /\ urlResult.status = "returned"

\* C5: the returned fingerprint holds, from positions 0, 1024, 1040, 1296,
\* 1303, 1318 and 1321, the sub-vectors colorHistogram, edgeFeatures,
\* textureFeatures, shapeFeatures, dominantColors, brightness and contrast,
\* each multiplied by its weight 0.30, 0.15, 0.15, 0.10, 0.25, 0.03, 0.02
C5_FixedLayout ==
    (AdvancedFinished /\ advanced.status = "returned") =>
        /\ Len(advanced.v) = 1322
        /\ \A i \in 1..Len(Layout) :
               Segment(advanced.v, Layout[i])
                   = ScaledBy(extracted[Layout[i][1]], Layout[i][4])

\* C5 happens: a fingerprint was returned whose edge and dominant-colour
\* segments, which the weight table lists in the other order, are not zero
C5_OrderMatters ==
    /\ AdvancedFinished
    /\ advanced.status = "returned"
    /\ ~AllZero(extracted["edgeFeatures"])
    /\ ~AllZero(extracted["dominantColors"])
    /\ ~AllZero(extracted["shapeFeatures"])

(***************************************************************************)
(* Properties of calculateAdvancedSimilarity, checked under SpecSim.       *)
(***************************************************************************)
\* calculateAdvancedSimilarity(simA, simB) has returned simAB
SimReturned == simPc \in {"swapped", "done"}

\* an input is absent or empty, or the lengths differ
Incomparable(a, b) ==
    \/ ~a.present \/ ~b.present
    \/ Len(a.v) = 0 \/ Len(b.v) = 0
    \/ Len(a.v) # Len(b.v)

BothEmpty(a, b) == a.present /\ b.present /\ Len(a.v) = 0 /\ Len(b.v) = 0

\* C6 as the specification states it: whenever an input is absent or empty,
\* or the two lengths differ, calculateAdvancedSimilarity returns exactly 0.
C6_ZeroWhenIncomparable ==
    (SimReturned /\ Incomparable(simA, simB)) => simAB = FZero

\* C6, the failing call: two empty arrays are scored 0.3, not 0
C6_BothEmptyScoredNonzero ==
    SimReturned /\ BothEmpty(simA, simB) /\ simAB = EuclideanWeight

\* C7: calculateAdvancedSimilarity is symmetric: for all inputs a and b
\* (absent, empty and length-mismatched ones included) the score of (a, b)
\* equals the score of (b, a).
C7_Symmetric == simPc = "done" => simAB = simBA

\* C7's case: two different vectors of one length with a nonzero score
C7_ScoredBothWays ==
    /\ simPc = "done"
    /\ simA.present /\ simB.present
    /\ Len(simA.v) = MaxLen /\ Len(simB.v) = MaxLen
    /\ simA # simB
    /\ ~IsZero(simAB)
    /\ simAB # One

NonzeroNorm(v) == \E i \in 1..Len(v) : ~IsZero(v[i])

NonzeroVariance(v) == \E i, j \in 1..Len(v) : v[i] # v[j]

\* a vector scored against itself, of nonzero norm and nonzero variance
SelfScored ==
    /\ SimReturned
    /\ simA.present /\ simA = simB
    /\ NonzeroNorm(simA.v) /\ NonzeroVariance(simA.v)

\* C8 as the specification states it: a vector of nonzero norm and nonzero
\* variance scored against itself gets exactly 1.
C8_SelfSimilarityIsOne == SelfScored => simAB = One

SelfTolerance == Dec(1, 1000000000)

\* C8, amended: a vector of nonzero norm and nonzero variance scored against
\* itself gets 1 up to the rounding of the Number arithmetic: the score is at
\* most 1 and at least 1 - 1e-9.
C8_SelfSimilarityNearOne ==
    SelfScored => FLe(simAB, One) /\ FGe(simAB, FSub(One, SelfTolerance))

\* C8's case: a vector scored against itself gets a score other than 1
C8_SelfScoredBelowOne == SelfScored /\ FLt(simAB, One)

(***************************************************************************)
(* Claims about findAdvancedSimilarProducts, under SpecRank.               *)
(***************************************************************************)
RankReturned == rankPc = "done"

\* C9: findAdvancedSimilarProducts never returns an entry whose final score
\* is below 0.15: every returned entry's similarity is a Number >= 0.15.
C9_NoneBelowFloor ==
    RankReturned => \A i \in 1..Len(ranked) : FGe(ranked[i].similarity, SimilarityFloor)

\* a call that returned some entries and withheld, within the limit, a
\* candidate whose score is below 0.15
C9_FloorDropsCandidate ==
    /\ RankReturned
    /\ Len(ranked) > 0
    /\ Len(ranked) < limit
    /\ \E i \in 1..Len(similarities) :
           /\ FLt(similarities[i].similarity, SimilarityFloor)
           /\ \A j \in 1..Len(ranked) : ranked[j].id # similarities[i].id

RankConsistent == ConsistentComparator(CompareAll(similarities))

\* the later entry outscores the earlier one by more than the 0.05 band
Outscores(later, earlier) ==
    FGt(FSub(later.similarity, earlier.similarity), TieBand)

C11_AtMostLimit == RankReturned => Len(ranked) <= limit

\* C11 happens: more candidates passed the floor than the limit lets through
C11_LimitTruncates ==
    /\ RankReturned
    /\ limit > 0
    /\ Len(ranked) = limit
    /\ Len(SelectSeq(similarities, AboveFloor)) > limit

\* the positions of the candidates whose fingerprint is the query's
IdenticalCandidates ==
    { i \in 1..Len(products) : products[i].colorFeatures = uploadedFeatures }

\* exactly one candidate has the query's fingerprint, a vector of nonzero
\* norm and nonzero variance, and the limit lets an entry through
OneIdenticalCandidate ==
    /\ RankReturned
    /\ limit >= 1
    /\ uploadedFeatures.present
    /\ NonzeroNorm(uploadedFeatures.v)
    /\ NonzeroVariance(uploadedFeatures.v)
    /\ Cardinality(IdenticalCandidates) = 1

\* C12: the one candidate whose fingerprint equals the query's is returned
\* first, with final score 1
C12_IdenticalFirst ==
    OneIdenticalCandidate =>
        /\ Len(ranked) >= 1
        /\ \A i \in IdenticalCandidates : ranked[1].id = products[i].id
        /\ ranked[1].similarity = One

\* C12 fails: another candidate is returned ahead of the identical one
C12_NearCopyFirst ==
    /\ OneIdenticalCandidate
    /\ Len(ranked) >= 2
    /\ \A i \in IdenticalCandidates : ranked[1].id # products[i].id
    /\ \E i \in IdenticalCandidates : ranked[2].id = products[i].id

\* a Number that is not NaN and lies between 0 and 1
InUnitInterval(x) == FGe(x, FZero) /\ FLe(x, One)

\* C13: for a non-empty candidate set, every candidate's price relevance
\* and final score are Numbers in [0, 1]
C13_ScoresDefined ==
    (RankReturned /\ products # <<>>) =>
        \A i \in 1..Len(products) :
            /\ InUnitInterval(calculatePriceRelevance(products[i].price, products))
            /\ InUnitInterval(similarities[i].similarity)

\* C13 fails: the average price is 0 and a final score is NaN
C13_ScoreIsNaN ==
    /\ RankReturned
    /\ products # <<>>
    /\ IsZero(PriceSum(products, 1, FZero))
    /\ \E i \in 1..Len(similarities) : IsNaN(similarities[i].similarity)

(***************************************************************************)
(* Properties of the search strategies and their merge, under SpecSearch.  *)
(***************************************************************************)
SearchDone == searchPc = "done"

\* C14: over an empty candidate set the three strategies return empty
\* lists, the merge is empty and the confidence is 0
C14_EmptySearch ==
    (SearchDone /\ allProducts = <<>>) =>
        /\ globalResults = <<>>
        /\ categoryResults = <<>>
        /\ priceResults = <<>>
        /\ combinedResults = <<>>
        /\ topResults = <<>>
        /\ confidence = FZero

\* C14 happens: a search with a fingerprint over no candidates has finished
C14_SearchedNothing ==
    /\ SearchDone
    /\ allProducts = <<>>
    /\ imageFeatures.present

\* the strategy outputs in priority order, with the weight of each
StrategyOutputs ==
    << <<"AI Visual Similarity", globalResults, One>>,
       <<"Category-Enhanced", categoryResults, Dec(8, 10)>>,
       <<"Price-Range Similar", priceResults, Dec(6, 10)>> >>

IdsOf(results) == { results[i].id : i \in 1..Len(results) }

\* the first strategy whose output holds the candidate
FirstStrategyWith(id) ==
    CHOOSE n \in 1..3 :
        /\ id \in IdsOf(StrategyOutputs[n][2])
        /\ \A m \in 1..(n - 1) : id \notin IdsOf(StrategyOutputs[m][2])

\* the entry is the candidate as its first strategy scored it, tagged with
\* that strategy and rescaled by its weight
MergedFrom(merged, row) ==
    /\ merged.matchStrategy = row[1]
    /\ \E i \in 1..Len(row[2]) :
           /\ row[2][i].id = merged.id
           /\ merged.similarity = FMul(row[2][i].similarity, row[3])

Merged == searchPc \in {"confidence", "done"}

\* C15: the merged list holds every candidate of any strategy output once,
\* tagged with the first strategy that has it and with that strategy's
\* score times the strategy's weight
C15_MergedOnce ==
    Merged =>
        /\ \A i, j \in 1..Len(combinedResults) :
               i # j => combinedResults[i].id # combinedResults[j].id
        /\ IdsOf(combinedResults)
               = IdsOf(globalResults) \cup IdsOf(categoryResults) \cup IdsOf(priceResults)
        /\ \A i \in 1..Len(combinedResults) :
               MergedFrom(combinedResults[i],
                          StrategyOutputs[FirstStrategyWith(combinedResults[i].id)])

\* C15 happens: one candidate came from two strategies and another from the
\* per-category strategy only
C15_DuplicateDropped ==
    /\ Merged
    /\ IdsOf(globalResults) \cap IdsOf(categoryResults) # {}
    /\ IdsOf(categoryResults) \ IdsOf(globalResults) # {}

\* C16: every entry of the final list has a score of at least 0.15
C16_FinalAboveFloor ==
    Merged => \A i \in 1..Len(topResults) : FGe(topResults[i].similarity, SimilarityFloor)

\* C16 fails: the final list holds an entry that scores less than 0.15
C16_FinalBelowFloor ==
    /\ Merged
    /\ \E i \in 1..Len(topResults) : FLt(topResults[i].similarity, SimilarityFloor)

\* findCategoryAwareSimilarProducts has just returned
CategoryReturned == searchPc = "price"

CountInCategory(results, category) ==
    Cardinality({ i \in 1..Len(results) : results[i].category = category })

\* the base match over the category's own products returns the candidate
\* with this score
MatchedInPartition(result) ==
    \E matches \in RankResults(imageFeatures, InCategory(allProducts, result.category),
                               2, DefaultCategoryBoost) :
        \E j \in 1..Len(matches) :
            /\ matches[j].id = result.id
            /\ matches[j].similarity = result.similarity

\* C17: the per-category output has at most two entries of any category,
\* each a product of that category scored by the base match run over that
\* category's products alone
C17_TwoPerCategory ==
    CategoryReturned =>
        \A i \in 1..Len(categoryResults) :
            /\ CountInCategory(categoryResults, categoryResults[i].category) <= 2
            /\ \E j \in 1..Len(allProducts) :
                   /\ allProducts[j].id = categoryResults[i].id
                   /\ allProducts[j].category = categoryResults[i].category
            /\ MatchedInPartition(categoryResults[i])

\* C17 happens: a category of three products gave exactly two entries
C17_ThirdLeftOut ==
    /\ CategoryReturned
    /\ \E i \in 1..Len(categoryResults) :
           /\ CountInCategory(categoryResults, categoryResults[i].category) = 2
           /\ CountInCategory(allProducts, categoryResults[i].category) = 3

\* findPriceAwareSimilarProducts has just returned
PriceReturned == searchPc = "combine"

\* the sets of five candidates (all of them when there are fewer) that no
\* candidate left out is more similar to the query than
TopFives ==
    { T \in SUBSET (1..Len(allProducts)) :
          /\ Cardinality(T) = Min2(5, Len(allProducts))
          /\ \A i \in T : \A j \in (1..Len(allProducts)) \ T :
                 FGe(calculateAdvancedSimilarity(imageFeatures, allProducts[i].colorFeatures),
                     calculateAdvancedSimilarity(imageFeatures, allProducts[j].colorFeatures)) }

\* the mean price of a set of candidates
MeanPrice(T) == FDiv(PriceSum(Found(Ascending({allProducts[i].id : i \in T})), 1, FZero),
                     FromInt(Cardinality(T)))

Bucket(p) ==
    IF FLt(p, FromInt(30)) THEN "budget"
    ELSE IF FLt(p, FromInt(100)) THEN "mid-range"
    ELSE IF FLt(p, FromInt(300)) THEN "premium"
    ELSE "luxury"

NearAverage(p, avg) ==
    \/ Bucket(p) = Bucket(avg)
    \/ FLt(FDiv(FAbs(FSub(p, avg)), avg), Dec(5, 10))

\* C18: every entry of the price-aware output is a candidate whose bucket
\* is that of avg or whose price is within 50% of avg, avg being the mean
\* price of the five candidates most similar to the query
C18_NearTopFiveAverage ==
    (PriceReturned /\ priceResults # <<>>) =>
        \E T \in TopFives :
            \A i \in 1..Len(priceResults) :
                /\ \E j \in 1..Len(allProducts) :
                       /\ allProducts[j].id = priceResults[i].id
                       /\ allProducts[j].price = priceResults[i].price
                /\ NearAverage(priceResults[i].price, MeanPrice(T))

\* C18 happens: of more than five candidates, one that passes the floor in
\* the global match is left out for its price
C18_LeftOutForPrice ==
    /\ PriceReturned
    /\ priceResults # <<>>
    /\ Len(allProducts) > 5
    /\ \E i \in 1..Len(globalResults) :
           /\ globalResults[i].id \notin IdsOf(priceResults)
           /\ \A T \in TopFives : ~NearAverage(globalResults[i].price, MeanPrice(T))

(***************************************************************************)
(* Properties of the price bucketing, under SpecBucket.                    *)
(***************************************************************************)
\* the bucket of a price of c cents: below 30, below 100, below 300, above
BucketOfCents(c) ==
    IF c < 3000 THEN "budget"
    ELSE IF c < 10000 THEN "mid-range"
    ELSE IF c < 30000 THEN "premium"
    ELSE "luxury"

\* C19: every implementation of the bucketing gives a price the bucket
\* budget below 30, mid-range from 30, premium from 100 and luxury from
\* 300, so all implementations agree
C19_SameBuckets ==
    \A c \in Cents :
        bucketPrice = Dec(c, 100) =>
            \A i \in Implementations :
                ranges[i] # "none" => ranges[i] = BucketOfCents(c)

\* C19 happens: all four implementations have bucketed a boundary price
C19_BoundaryBucketed ==
    /\ bucketPrice \in {FromInt(30), FromInt(100), FromInt(300)}
    /\ \A i \in Implementations : ranges[i] # "none"

(***************************************************************************)
(* Properties of calculateSearchConfidence, under SpecConfidence.          *)
(***************************************************************************)
RECURSIVE SumOf(_, _)
SumOf(scores, n) == IF n = 0 THEN FZero ELSE FAdd(SumOf(scores, n - 1), scores[n])

ScoresOf(results) == SubSeq([i \in 1..Len(results) |-> results[i].similarity], 1, Len(results))

SquaredDeviation(scores, mean) ==
    SubSeq([i \in 1..Len(scores) |-> FMul(FSub(scores[i], mean), FSub(scores[i], mean))],
           1, Len(scores))

MeanOf(scores) == FDiv(SumOf(scores, Len(scores)), FromInt(Len(scores)))

VarianceOf(scores) == MeanOf(SquaredDeviation(scores, MeanOf(scores)))

\* 0.5 min(2 topScore, 1) + 0.3 max(0, 1 - 10 variance) + 0.2 min(count / 10, 1)
StatedConfidence(scores) ==
    FAdd(FAdd(FMul(Dec(5, 10), FMin(FMul(Two, scores[1]), One)),
              FMul(Dec(3, 10), FMax(FZero, FSub(One, FMul(FromInt(10), VarianceOf(scores)))))),
         FMul(Dec(2, 10), FMin(FDiv(FromInt(Len(scores)), FromInt(10)), One)))

BeyondBand(a, b) == FGt(FAbs(FSub(a.similarity, b.similarity)), TieBand)

\* the tie-break rule allows a to come before b
MayPrecede(a, b) ==
    IF BeyondBand(a, b) THEN FGt(a.similarity, b.similarity)
    ELSE IF a.categoryMatch # b.categoryMatch THEN a.categoryMatch
    ELSE FLe(PriceDistance(a.price), PriceDistance(b.price))

SolidTwice == exPc \in {"compare", "compared"} /\ imageBuffer.kind = "solid"

\* the sub-vector of the dominant colours in a fingerprint
DominantSegment(fingerprint) == SubSeq(fingerprint, 1024 + 16 + 256 + 7 + 1, 1024 + 16 + 256 + 7 + 15)

\* C22 as stated: two extractions of a solid-colour image give the same
\* dominant colours whatever Math.random picks, the two fingerprints are
\* equal and their similarity is 1.0.
C22_SolidTwiceScoresOne ==
    SolidTwice =>
        /\ DominantSegment(simA.v) = DominantSegment(simB.v)
        /\ simA = simB
        /\ exPc = "compared" => simAB = One

\* C22, amended: two extractions of a solid-colour image give the same
\* dominant colours whatever Math.random picks, the two fingerprints are
\* equal and their similarity is 1 up to rounding: at most 1 and at least
\* 1 - 1e-9.
C22_SolidTwiceScoresNearOne ==
    SolidTwice =>
        /\ DominantSegment(simA.v) = DominantSegment(simB.v)
        /\ simA = simB
        /\ exPc = "compared" =>
               FLe(simAB, One) /\ FGe(simAB, FSub(One, SelfTolerance))

\* C22 happens: a solid-colour image was extracted twice with different
\* picks of Math.random and the fingerprints scored less than 1
C22_SolidTwiceBelowOne ==
    /\ SolidTwice
    /\ exPc = "compared"
    /\ SubSeq(randoms, 1, K) # SubSeq(randoms, K + 1, 2 * K)
    /\ FLt(simAB, One)

(***************************************************************************)
(* The LBP histogram, under SpecTexture.                                   *)
(***************************************************************************)
\* C23: every interior pixel has an LBP code in 0..255 and increments one
\* of the 256 bins, so the bin counts sum to the interior-pixel count
\* (width - 2) * (height - 2) and the normalized histogram sums to 1 (to
\* within 1e-9).
C23_LbpSumsToInterior ==
    /\ texturePc \in {"normalize", "done"} =>
           /\ \A j \in 1..(TextureSide - 2) * (TextureSide - 2) :
                  LbpValues(grayBuffer, TextureSide)[j] \in 0..255
           /\ Len(lbpHistogram) = 256
           /\ SumFrom(lbpHistogram, 1, FZero)
                  = FromInt((TextureSide - 2) * (TextureSide - 2))
    /\ texturePc = "done" =>
           /\ Len(textureFeatures) = 256
           /\ FLe(FAbs(FSub(SumFrom(textureFeatures, 1, FZero), One)), SelfTolerance)

\* C23 happens: the interior pixels of a buffer fell into three bins or more
C23_SeveralBins ==
    /\ texturePc = "done"
    /\ Cardinality({k \in 1..Len(textureFeatures) : ~IsZero(textureFeatures[k])}) >= 3

(***************************************************************************)
(* The category inferred from the fingerprints of SpecExtract.             *)
(***************************************************************************)
\* C24: inferCategoryFromFeatures returns 'Fashion' for every fingerprint
\* that combineFeatures produces and for the vectors filled with 0.001: the
\* element third from the end is the weighted brightness variance (or 0.001),
\* which is below 0.4.
C24_AlwaysFashion ==
    \A o \in Produced :
        /\ inferCategoryFromFeatures(Arr(o.v)) = "Fashion"
        /\ FLt(o.v[Len(o.v) - 2], Dec(4, 10))

\* C24 happens: the fingerprint of an image of two brightnesses, with a
\* brightness variance other than 0, was returned and kept
C24_VarianceRead ==
    /\ stored.status = "returned"
    /\ failed = {}
    /\ Len(stored.v) = 1322
    /\ stored.v[1320] = FMul(extracted["brightness"][2], WeightOf("brightness"))
    /\ ~IsZero(stored.v[1320])

(***************************************************************************)
(* The category boost and the categoryMatch flag, under SpecRank.          *)
(***************************************************************************)
\* the boost was added to the score of candidate i: its baseSimilarity is
\* not the similarity of the fingerprints
BoostAdded(i) ==
    similarities[i].baseSimilarity
        # calculateAdvancedSimilarity(uploadedFeatures, products[i].colorFeatures)

\* C25: with a boost other than 0, the categoryMatch flag of a candidate is
\* true exactly when the category boost was added to its score, whatever the
\* letter case of its category.
C25_FlagIffBoosted ==
    (RankReturned /\ ~IsZero(categoryBoost)) =>
        \A i \in 1..Len(similarities) : similarities[i].categoryMatch <=> BoostAdded(i)

\* C25's case: a candidate whose category differs from the inferred one in
\* letter case only got the boost and no flag
C25_BoostedUnflagged ==
    /\ RankReturned
    /\ ~IsZero(categoryBoost)
    /\ \E i \in 1..Len(similarities) :
           /\ BoostAdded(i)
           /\ ~similarities[i].categoryMatch
           /\ similarities[i].category # inferCategoryFromFeatures(uploadedFeatures)
           /\ ToLowerCase(similarities[i].category)
                  = ToLowerCase(inferCategoryFromFeatures(uploadedFeatures))

(***************************************************************************)
(* The length of the returned list, under SpecFloor.                       *)
(***************************************************************************)
\* k: the number of candidates whose final score exceeds the floor
AboveFloorCount == Len(SelectSeq(similarities, AboveFloor))

\* C26: findAdvancedSimilarProducts returns min(limit, k) entries, k the
\* number of candidates whose final score exceeds 0.15.
C26_ReturnsMinLimitK ==
    RankReturned => Len(ranked) = Min2(limit, AboveFloorCount)

\* C26's case: a candidate at or below the floor took a slot of the slice
\* while a candidate above the floor was cut off
C26_FloorLosesSlot ==
    /\ RankReturned
    /\ limit >= 1
    /\ Len(ranked) < Min2(limit, AboveFloorCount)

(***************************************************************************)
(* The analysis quality the upload route reports, under SpecExtract.       *)
(***************************************************************************)
\* the query fingerprint of a finished upload is the fallback vector
FallbackUsed ==
    /\ exPc = "done"
    /\ entry \in {"uploadFile", "uploadUrl"}
    /\ stored = Returned(Filled(urlDefaultLength, Dec(1, 1000)))

\* C27: whenever the query fingerprint of an upload is the default fallback
\* vector, the metadata reports analysisQuality.success = false.
C27_FallbackReported == FallbackUsed => ~analysisQuality.success

\* C27's case: the URL could not be downloaded or decoded, the ranking used
\* the default vector, and the metadata reports success
C27_UrlFallbackUnreported ==
    /\ FallbackUsed
    /\ entry = "uploadUrl"
    /\ analysisQuality.success
    /\ analysisQuality.score = One

(***************************************************************************)
(* The upload component, under SpecUpload.                                 *)
(***************************************************************************)
\* a valid image is selected and shown as such
Selected == selectedFile # NoFile /\ uploadStatus = "success"

\* C28: once a valid image is selected (selectedFile set and uploadStatus
\* 'success'), no 3-second timer of an earlier rejected selection or failed
\* URL validation resets uploadStatus.
C28_TimerKeepsSuccess == [][TimerFires => ~Selected]_vars

\* C28's case: the timer of an earlier rejection is pending while a later
\* valid selection is shown
C28_TimerPendingOverSuccess ==
    /\ Selected
    /\ timers > 0
    /\ validations = <<>>
    /\ uploads = <<>>

\* C29: isLoading is true whenever a request of handleSubmit or
\* handleUrlSubmit is in flight, and at most one upload request is in flight.
C29_LoadingWhileInFlight ==
    /\ (validations # <<>> \/ uploads # <<>>) => isLoading
    /\ Len(uploads) <= 1

\* C29's case: two upload requests in flight at once
C29_TwoUploadsInFlight == Len(uploads) = 2

\* C30: every request sent by handleSubmit carries an image file or a
\* non-empty imageUrl.
C30_RequestCarriesImage ==
    \A body \in sent : body.field = "image" \/ body.value # <<>>

\* C30's case: a request went out with imageUrl '' while the validated mock
\* file was still selected
C30_EmptyUrlSent ==
    /\ [field |-> "imageUrl", value |-> <<>>] \in sent
    /\ selectedFile.url # <<>>

====
